---- MODULE Spec2Model ----
(***************************************************************************)
(* Model of the Anchor code graph engine (src/src/graph/engine.rs), the    *)
(* single-file rebuild (src/src/graph/builder.rs) and the reader/writer    *)
(* coordination between the RPC handler (src/src/mcp/server.rs) and the    *)
(* watcher.                                                                *)
(*                                                                         *)
(* Strings (symbol names, paths) are sequences of one-character strings,   *)
(* so that to_lowercase, contains and starts_with are computed.  Node      *)
(* handles (petgraph NodeIndex) are positions in the node sequence.        *)
(***************************************************************************)
EXTENDS Integers, Sequences, FiniteSets, TLC

VARIABLES
    graph,     \* the CodeGraph: nodes, edges, file_index, symbol_index, qualified_index
    last_op,   \* the last completed operation and its arguments
    wlock,     \* TRUE while the RwLock is held by a writer
    rlock,     \* number of read guards of the RwLock that are alive
    wpc,       \* position of the watcher thread
    wjob,      \* the path and extraction the watcher is working on
    rpc,       \* position of the RPC handler
    sg,        \* the search_graph call in progress: its arguments and locals
    srv        \* the anchor-mcp / anchor process: its position, the cache file, stdin and
               \* stdout; inside build_graph, the workers and their shared list

vars == <<graph, last_op, wlock, rlock, wpc, wjob, rpc, sg, srv>>

----------------------------------------------------------------------------
(* Bounds of the model *)

MaxNodes == 7        \* stored nodes (live and soft-deleted) a mutation may reach
MaxBuildLen == 2     \* extractions in one build_from_extractions call
MaxApiNodes == 3     \* stored nodes, when the node and edge operations are called directly
MaxApiEdges == 1     \* stored edges up to which add_edge is called directly

----------------------------------------------------------------------------
(* Strings *)

\* the letters that have an upper-case form in the model's alphabet
LowerChar(c) == CASE c = "F" -> "f" [] c = "G" -> "g" [] OTHER -> c

to_lowercase(s) == [i \in 1..Len(s) |-> LowerChar(s[i])]

contains(hay, needle) ==
    \E i \in 0..(Len(hay) - Len(needle)) : SubSeq(hay, i + 1, i + Len(needle)) = needle

starts_with(s, prefix) ==
    Len(prefix) <= Len(s) /\ SubSeq(s, 1, Len(prefix)) = prefix

\* Path::file_name: the component after the last "/"
RECURSIVE file_name(_)
file_name(path) ==
    IF \E i \in 1..Len(path) : path[i] = "/"
    THEN file_name(Tail(path))
    ELSE path

----------------------------------------------------------------------------
(* Sequences and maps *)

\* the left fold of Op over s from acc: `for x in s { acc = Op(acc, x) }`.
\* The range is halved and the value reached at the middle is bound before the
\* second half is folded, so that the evaluation nests to the logarithm of Len(s).
FoldSeq(Op(_, _), acc, s) ==
    LET RECURSIVE Over(_, _, _)
        Over(a, lo, hi) ==
            IF lo > hi THEN {a}
            ELSE IF lo = hi THEN {Op(a, s[lo])}
            ELSE UNION {Over(mid, ((lo + hi) \div 2) + 1, hi) :
                            mid \in Over(a, lo, (lo + hi) \div 2)}
    IN  CHOOSE result \in Over(acc, 1, Len(s)) : TRUE

Reverse(s) == [i \in 1..Len(s) |-> s[Len(s) + 1 - i]]

Take(s, n) == SubSeq(s, 1, IF n < Len(s) THEN n ELSE Len(s))

Range(s) == {s[i] : i \in 1..Len(s)}

MapSeq(Op(_), s) == [i \in 1..Len(s) |-> Op(s[i])]

\* HashMap insert / remove / get-or-default
Put(m, k, v) == [x \in (DOMAIN m) \cup {k} |-> IF x = k THEN v ELSE m[x]]
Del(m, k) == [x \in (DOMAIN m) \ {k} |-> m[x]]
GetOr(m, k, d) == IF k \in DOMAIN m THEN m[k] ELSE d
EmptyMap == << >>

\* all orders in which the elements of a finite set can be listed
RECURSIVE Orders(_)
Orders(S) ==
    IF S = {} THEN {<< >>}
    ELSE UNION {{<<x>> \o o : o \in Orders(S \ {x})} : x \in S}

\* the multiset of the elements of a sequence
BagOf(s) == [x \in Range(s) |-> Cardinality({i \in 1..Len(s) : s[i] = x})]

----------------------------------------------------------------------------
(* types.rs *)

new_file(path) ==
    [name |-> file_name(path), kind |-> "File", file_path |-> path,
     line_start |-> 0, line_end |-> 0, code_snippet |-> << >>, removed |-> FALSE]

new_symbol(name, kind, file_path, line_start, line_end, code_snippet) ==
    [name |-> name, kind |-> kind, file_path |-> file_path,
     line_start |-> line_start, line_end |-> line_end,
     code_snippet |-> code_snippet, removed |-> FALSE]

EdgeData(kind) == kind

----------------------------------------------------------------------------
(* engine.rs: construction and mutation *)

\* CodeGraph::new
new == [nodes |-> << >>, edges |-> << >>, file_index |-> EmptyMap,
        symbol_index |-> EmptyMap, qualified_index |-> EmptyMap]

\* add_file without the lookup of an existing file_index entry
add_file_always_new(g, path) ==
    LET idx == Len(g.nodes) + 1
    IN  [g |-> [g EXCEPT !.nodes = Append(@, new_file(path)),
                         !.file_index = Put(@, path, idx)],
         idx |-> idx]

\* CodeGraph::add_file: the graph after the call and the handle returned
add_file(g, path) ==
    IF path \in DOMAIN g.file_index
    THEN LET idx == g.file_index[path]
         IN  [g |-> [g EXCEPT !.nodes[idx].removed = FALSE], idx |-> idx]
    ELSE LET idx == Len(g.nodes) + 1
         IN  [g |-> [g EXCEPT !.nodes = Append(@, new_file(path)),
                              !.file_index = Put(@, path, idx)],
              idx |-> idx]

\* add_symbol entering into the two indexes the handle before the new node's
add_symbol_stale_handle(g, name, kind, file_path, line_start, line_end, code_snippet) ==
    LET idx == Len(g.nodes) + 1
    IN  [g |-> [g EXCEPT
                 !.nodes = Append(@, new_symbol(name, kind, file_path,
                                                line_start, line_end, code_snippet)),
                 !.symbol_index = Put(@, name, Append(GetOr(@, name, << >>), idx - 1)),
                 !.qualified_index = Put(@, <<file_path, name>>, idx - 1)],
         idx |-> idx]

\* CodeGraph::add_symbol: the graph after the call and the handle returned
add_symbol(g, name, kind, file_path, line_start, line_end, code_snippet) ==
    LET idx == Len(g.nodes) + 1
    IN  [g |-> [g EXCEPT
                 !.nodes = Append(@, new_symbol(name, kind, file_path,
                                                line_start, line_end, code_snippet)),
                 !.symbol_index = Put(@, name, Append(GetOr(@, name, << >>), idx)),
                 !.qualified_index = Put(@, <<file_path, name>>, idx)],
         idx |-> idx]

\* CodeGraph::add_edge
add_edge(g, from, to, kind) ==
    [g EXCEPT !.edges = Append(@, [source |-> from, target |-> to,
                                   kind |-> EdgeData(kind)])]

\* petgraph edges_directed: the edges at a node, most recently added first
edges_directed(g, idx, dir) ==
    Reverse(SelectSeq(g.edges,
                      LAMBDA e : IF dir = "Outgoing" THEN e.source = idx
                                                     ELSE e.target = idx))

\* is_live without the test of the removed flag
is_live_any_stored(g, idx) == idx \in 1..Len(g.nodes)

\* CodeGraph::is_live
is_live(g, idx) == idx \in 1..Len(g.nodes) /\ ~g.nodes[idx].removed

\* build_from_extractions, phase 1, for one extraction
Phase1File(g, extraction) ==
    LET f == add_file(g, extraction.file_path)
        withSymbols ==
            FoldSeq(LAMBDA acc, symbol :
                        LET s == add_symbol(acc, symbol.name, symbol.kind,
                                            extraction.file_path, symbol.line_start,
                                            symbol.line_end, symbol.code_snippet)
                        IN  add_edge(s.g, f.idx, s.idx, "Defines"),
                    f.g, extraction.symbols)
    IN  FoldSeq(LAMBDA acc, import :
                    LET s == add_symbol(acc, import.path, "Import",
                                        extraction.file_path, import.line,
                                        import.line, << >>)
                    IN  add_edge(s.g, f.idx, s.idx, "Imports"),
                withSymbols, extraction.imports)

Phase1(g, extractions) == FoldSeq(Phase1File, g, extractions)

\* phase 2 as it would be with callee_indexes.last() in place of .first()
Phase2File_last_match(g, extraction) ==
    FoldSeq(LAMBDA acc, call :
                LET caller_key == <<extraction.file_path, call.caller>>
                IN  IF /\ caller_key \in DOMAIN acc.qualified_index
                       /\ call.callee \in DOMAIN acc.symbol_index
                       /\ Len(acc.symbol_index[call.callee]) > 0
                    THEN add_edge(acc, acc.qualified_index[caller_key],
                                  acc.symbol_index[call.callee][Len(acc.symbol_index[call.callee])],
                                  "Calls")
                    ELSE acc,
            g, extraction.calls)

\* build_from_extractions, phase 2: resolve calls
Phase2File(g, extraction) ==
    FoldSeq(LAMBDA acc, call :
                LET caller_key == <<extraction.file_path, call.caller>>
                IN  IF /\ caller_key \in DOMAIN acc.qualified_index
                       /\ call.callee \in DOMAIN acc.symbol_index
                       /\ Len(acc.symbol_index[call.callee]) > 0
                    THEN add_edge(acc, acc.qualified_index[caller_key],
                                  acc.symbol_index[call.callee][1], "Calls")
                    ELSE acc,
            g, extraction.calls)

Phase2(g, extractions) == FoldSeq(Phase2File, g, extractions)

\* phase 3 as it would be with the parent looked up by name alone, in
\* symbol_index, as phase 2 looks up a callee
Phase3File_parent_by_name(g, extraction) ==
    FoldSeq(LAMBDA acc, symbol :
                IF symbol.parent = << >> THEN acc
                ELSE LET child_key == <<extraction.file_path, symbol.name>>
                     IN  IF /\ symbol.parent[1] \in DOMAIN acc.symbol_index
                            /\ child_key \in DOMAIN acc.qualified_index
                         THEN add_edge(acc, acc.symbol_index[symbol.parent[1]][1],
                                       acc.qualified_index[child_key], "Contains")
                         ELSE acc,
            g, extraction.symbols)

\* build_from_extractions, phase 3: resolve contains (parent is << >> or <<name>>)
Phase3File(g, extraction) ==
    FoldSeq(LAMBDA acc, symbol :
                IF symbol.parent = << >> THEN acc
                ELSE LET child_key == <<extraction.file_path, symbol.name>>
                         parent_key == <<extraction.file_path, symbol.parent[1]>>
                     IN  IF /\ parent_key \in DOMAIN acc.qualified_index
                            /\ child_key \in DOMAIN acc.qualified_index
                         THEN add_edge(acc, acc.qualified_index[parent_key],
                                       acc.qualified_index[child_key], "Contains")
                         ELSE acc,
            g, extraction.symbols)

Phase3(g, extractions) == FoldSeq(Phase3File, g, extractions)

\* build_from_extractions as it would be with one loop over the files, the
\* calls and parents of a file resolved as soon as its own nodes are added
build_from_extractions_file_by_file(g, extractions) ==
    FoldSeq(LAMBDA acc, extraction :
                Phase3File(Phase2File(Phase1File(acc, extraction), extraction), extraction),
            g, extractions)

\* CodeGraph::build_from_extractions
build_from_extractions(g, extractions) ==
    Phase3(Phase2(Phase1(g, extractions), extractions), extractions)

\* the loop body of remove_file with the whole symbol_index entry of the name
\* dropped instead of the one handle
RemoveChild_drops_name(g, node_idx) ==
    LET name == g.nodes[node_idx].name
        file == g.nodes[node_idx].file_path
    IN  [g EXCEPT
          !.nodes[node_idx].removed = TRUE,
          !.symbol_index = Del(@, name),
          !.qualified_index = Del(@, <<file, name>>)]

\* the loop body of remove_file without the removed flag being set
RemoveChild_keeps_live(g, node_idx) ==
    LET name == g.nodes[node_idx].name
        file == g.nodes[node_idx].file_path
        kept == IF name \in DOMAIN g.symbol_index
                THEN SelectSeq(g.symbol_index[name], LAMBDA idx : idx # node_idx)
                ELSE << >>
    IN  [g EXCEPT
          !.symbol_index = IF name \in DOMAIN @
                           THEN (IF kept = << >> THEN Del(@, name)
                                                 ELSE Put(@, name, kept))
                           ELSE @,
          !.qualified_index = Del(@, <<file, name>>)]

\* the loop body of remove_file without the qualified_index.remove call
RemoveChild_keeps_qualified(g, node_idx) ==
    LET name == g.nodes[node_idx].name
        kept == IF name \in DOMAIN g.symbol_index
                THEN SelectSeq(g.symbol_index[name], LAMBDA idx : idx # node_idx)
                ELSE << >>
    IN  [g EXCEPT
          !.nodes[node_idx].removed = TRUE,
          !.symbol_index = IF name \in DOMAIN @
                           THEN (IF kept = << >> THEN Del(@, name)
                                                 ELSE Put(@, name, kept))
                           ELSE @]

\* the loop body of remove_file as it would be if it also released the
\* snippet of the node it soft-deletes
RemoveChild_clears_snippet(g, node_idx) ==
    LET name == g.nodes[node_idx].name
        file == g.nodes[node_idx].file_path
        kept == IF name \in DOMAIN g.symbol_index
                THEN SelectSeq(g.symbol_index[name], LAMBDA idx : idx # node_idx)
                ELSE << >>
    IN  [g EXCEPT
          !.nodes[node_idx].removed = TRUE,
          !.nodes[node_idx].code_snippet = << >>,
          !.symbol_index = IF name \in DOMAIN @
                           THEN (IF kept = << >> THEN Del(@, name)
                                                 ELSE Put(@, name, kept))
                           ELSE @,
          !.qualified_index = Del(@, <<file, name>>)]

\* remove_file: soft-delete one child node and purge it from the indexes
RemoveChild(g, node_idx) ==
    LET name == g.nodes[node_idx].name
        file == g.nodes[node_idx].file_path
        kept == IF name \in DOMAIN g.symbol_index
                THEN SelectSeq(g.symbol_index[name], LAMBDA idx : idx # node_idx)
                ELSE << >>
    IN  [g EXCEPT
          !.nodes[node_idx].removed = TRUE,
          !.symbol_index = IF name \in DOMAIN @
                           THEN (IF kept = << >> THEN Del(@, name)
                                                 ELSE Put(@, name, kept))
                           ELSE @,
          !.qualified_index = Del(@, <<file, name>>)]

\* remove_file as it would be without self.file_index.remove(path)
remove_file_keeps_file_index(g, path) ==
    IF path \in DOMAIN g.file_index
    THEN LET file_idx == g.file_index[path]
             child_nodes == MapSeq(LAMBDA e : e.target,
                                   edges_directed(g, file_idx, "Outgoing"))
             purged == FoldSeq(RemoveChild, g, child_nodes)
         IN  [purged EXCEPT !.nodes[file_idx].removed = TRUE]
    ELSE g

\* remove_file as it would be without file_node.removed = true
remove_file_keeps_file_node(g, path) ==
    IF path \in DOMAIN g.file_index
    THEN LET file_idx == g.file_index[path]
             child_nodes == MapSeq(LAMBDA e : e.target,
                                   edges_directed(g, file_idx, "Outgoing"))
             purged == FoldSeq(RemoveChild, g, child_nodes)
         IN  [purged EXCEPT !.file_index = Del(@, path)]
    ELSE g

\* CodeGraph::remove_file
remove_file(g, path) ==
    IF path \in DOMAIN g.file_index
    THEN LET file_idx == g.file_index[path]
             child_nodes == MapSeq(LAMBDA e : e.target,
                                   edges_directed(g, file_idx, "Outgoing"))
             purged == FoldSeq(RemoveChild, g, child_nodes)
         IN  [purged EXCEPT !.nodes[file_idx].removed = TRUE,
                            !.file_index = Del(@, path)]
    ELSE g

\* the live_files snapshot of compact without the test of the removed flag
AllFilePaths(g) ==
    {g.nodes[i].file_path : i \in {j \in 1..Len(g.nodes) : g.nodes[j].kind = "File"}}

\* the paths of the live File nodes: the keys of compact's live_files map
LiveFilePaths(g) ==
    {g.nodes[i].file_path : i \in {j \in 1..Len(g.nodes) :
                                     ~g.nodes[j].removed /\ g.nodes[j].kind = "File"}}

\* compact, up to the loop over node_indices: the new graph with the live File
\* nodes and the live symbols re-added, and the old_to_new map; key_order is the
\* order in which live_files.keys() iterates
CompactNodes(g, key_order) ==
    LET withFiles == FoldSeq(LAMBDA acc, path : add_file(acc, path).g, new, key_order)
    IN  FoldSeq(LAMBDA acc, idx :
                    LET node == g.nodes[idx]
                    IN  IF node.removed THEN acc
                        ELSE IF node.kind = "File"
                        THEN (IF node.file_path \in DOMAIN acc.g.file_index
                              THEN [acc EXCEPT !.old_to_new =
                                      Put(@, idx, acc.g.file_index[node.file_path])]
                              ELSE acc)
                        ELSE LET s == add_symbol(acc.g, node.name, node.kind,
                                                 node.file_path, node.line_start,
                                                 node.line_end, node.code_snippet)
                             IN  [g |-> s.g,
                                  old_to_new |-> Put(acc.old_to_new, idx, s.idx)],
                [g |-> withFiles, old_to_new |-> EmptyMap],
                [i \in 1..Len(g.nodes) |-> i])

\* compact without the loop that re-adds the edges
compact_nodes_only(g, key_order) == CompactNodes(g, key_order).g

\* CodeGraph::compact
compact(g, key_order) ==
    LET copied == CompactNodes(g, key_order)
    IN  FoldSeq(LAMBDA acc, edge :
                    IF /\ edge.source \in DOMAIN copied.old_to_new
                       /\ edge.target \in DOMAIN copied.old_to_new
                    THEN add_edge(acc, copied.old_to_new[edge.source],
                                  copied.old_to_new[edge.target], edge.kind)
                    ELSE acc,
                copied.g, g.edges)

----------------------------------------------------------------------------
(* engine.rs: queries.  A query is modelled twice: by the node handles it   *)
(* reports (so that liveness of what it reports can be examined), and by    *)
(* the records the code returns, which are built from those handles.        *)

\* SymbolRef of a node
SymbolRef(g, idx) ==
    [name |-> g.nodes[idx].name, file |-> g.nodes[idx].file_path,
     line |-> g.nodes[idx].line_start]

\* build_search_result as it would be without the liveness test on a callee
build_search_result_any_callee(g, idx) ==
    LET node == g.nodes[idx]
    IN  IF node.kind = "File" \/ node.removed THEN << >>
        ELSE <<[node |-> idx,
                calls |-> MapSeq(LAMBDA e : e.target,
                            SelectSeq(edges_directed(g, idx, "Outgoing"),
                                LAMBDA e : e.kind = "Calls")),
                called_by |-> MapSeq(LAMBDA e : e.source,
                            SelectSeq(edges_directed(g, idx, "Incoming"),
                                LAMBDA e : e.kind = "Calls" /\ is_live(g, e.source))),
                imports |-> IF node.file_path \in DOMAIN g.file_index
                            THEN MapSeq(LAMBDA e : e.target,
                                   SelectSeq(edges_directed(g, g.file_index[node.file_path],
                                                            "Outgoing"),
                                       LAMBDA e : e.kind = "Imports" /\ is_live(g, e.target)))
                            ELSE << >>]>>

\* CodeGraph::build_search_result: << >> for None, else the handles of the
\* symbol, of its live callees and callers and of its file's live imports
build_search_result(g, idx) ==
    LET node == g.nodes[idx]
    IN  IF node.kind = "File" \/ node.removed THEN << >>
        ELSE <<[node |-> idx,
                calls |-> MapSeq(LAMBDA e : e.target,
                            SelectSeq(edges_directed(g, idx, "Outgoing"),
                                LAMBDA e : e.kind = "Calls" /\ is_live(g, e.target))),
                called_by |-> MapSeq(LAMBDA e : e.source,
                            SelectSeq(edges_directed(g, idx, "Incoming"),
                                LAMBDA e : e.kind = "Calls" /\ is_live(g, e.source))),
                imports |-> IF node.file_path \in DOMAIN g.file_index
                            THEN MapSeq(LAMBDA e : e.target,
                                   SelectSeq(edges_directed(g, g.file_index[node.file_path],
                                                            "Outgoing"),
                                       LAMBDA e : e.kind = "Imports" /\ is_live(g, e.target)))
                            ELSE << >>]>>

\* the SearchResult record built from the handles
SearchResult(g, r) ==
    [symbol |-> g.nodes[r.node].name, kind |-> g.nodes[r.node].kind,
     file |-> g.nodes[r.node].file_path,
     line_start |-> g.nodes[r.node].line_start, line_end |-> g.nodes[r.node].line_end,
     code |-> g.nodes[r.node].code_snippet,
     calls |-> MapSeq(LAMBDA i : SymbolRef(g, i), r.calls),
     called_by |-> MapSeq(LAMBDA i : SymbolRef(g, i), r.called_by),
     imports |-> MapSeq(LAMBDA i : g.nodes[i].name, r.imports)]

\* concatenation of build_search_result over a sequence of handles
BuildResults(g, idxs) ==
    FoldSeq(LAMBDA acc, idx : acc \o build_search_result(g, idx), << >>, idxs)

\* search, fuzzy branch: the (score, handle) pairs in iteration order;
\* iter_order is the order in which symbol_index.iter() yields its keys
FuzzyScored(g, query, iter_order) ==
    LET query_lower == to_lowercase(query)
        names == SelectSeq(iter_order, LAMBDA name : contains(to_lowercase(name), query_lower))
        handles == FoldSeq(LAMBDA acc, name :
                              acc \o SelectSeq(g.symbol_index[name],
                                               LAMBDA idx : ~g.nodes[idx].removed),
                           << >>, names)
    IN  MapSeq(LAMBDA idx :
                   [score |-> IF g.nodes[idx].name = query THEN 0
                              ELSE IF starts_with(to_lowercase(g.nodes[idx].name), query_lower)
                                   THEN 1 ELSE 2,
                    idx |-> idx],
               handles)

\* the scored pairs left in iteration order: no sort_by_key
SortByScore_unsorted(scored) == scored

\* sort_by_key on the score: a stable sort
SortByScore(scored) ==
    SelectSeq(scored, LAMBDA x : x.score = 0) \o
    SelectSeq(scored, LAMBDA x : x.score = 1) \o
    SelectSeq(scored, LAMBDA x : x.score = 2)

\* CodeGraph::search, as handles
search_handles(g, query, limit, iter_order) ==
    LET exact == IF query \in DOMAIN g.symbol_index
                 THEN BuildResults(g, Take(g.symbol_index[query], limit))
                 ELSE << >>
    IN  IF exact # << >> THEN exact
        ELSE BuildResults(g, MapSeq(LAMBDA x : x.idx,
                                    Take(SortByScore(FuzzyScored(g, query, iter_order)),
                                         limit)))

\* CodeGraph::search
search(g, query, limit, iter_order) ==
    MapSeq(LAMBDA r : SearchResult(g, r), search_handles(g, query, limit, iter_order))

\* dependents as it would be without the liveness test on the source
dependents_handles_any_source(g, symbol_name) ==
    IF symbol_name \in DOMAIN g.symbol_index
    THEN FoldSeq(LAMBDA acc, idx :
                    IF ~is_live(g, idx) THEN acc
                    ELSE acc \o MapSeq(LAMBDA e : [node |-> e.source, relationship |-> e.kind],
                                  edges_directed(g, idx, "Incoming")),
                 << >>, g.symbol_index[symbol_name])
    ELSE << >>

\* CodeGraph::dependents, as (handle, relationship) pairs
dependents_handles(g, symbol_name) ==
    IF symbol_name \in DOMAIN g.symbol_index
    THEN FoldSeq(LAMBDA acc, idx :
                    IF ~is_live(g, idx) THEN acc
                    ELSE acc \o MapSeq(LAMBDA e : [node |-> e.source, relationship |-> e.kind],
                                  SelectSeq(edges_directed(g, idx, "Incoming"),
                                            LAMBDA e : is_live(g, e.source))),
                 << >>, g.symbol_index[symbol_name])
    ELSE << >>

\* CodeGraph::dependencies, as (handle, relationship) pairs
dependencies_handles(g, symbol_name) ==
    IF symbol_name \in DOMAIN g.symbol_index
    THEN FoldSeq(LAMBDA acc, idx :
                    IF ~is_live(g, idx) THEN acc
                    ELSE acc \o MapSeq(LAMBDA e : [node |-> e.target, relationship |-> e.kind],
                                  SelectSeq(edges_directed(g, idx, "Outgoing"),
                                            LAMBDA e : is_live(g, e.target))),
                 << >>, g.symbol_index[symbol_name])
    ELSE << >>

\* the DependencyInfo record of a (handle, relationship) pair
DependencyInfo(g, d) ==
    [symbol |-> g.nodes[d.node].name, kind |-> g.nodes[d.node].kind,
     file |-> g.nodes[d.node].file_path, line |-> g.nodes[d.node].line_start,
     relationship |-> d.relationship]

dependents(g, symbol_name) ==
    MapSeq(LAMBDA d : DependencyInfo(g, d), dependents_handles(g, symbol_name))

dependencies(g, symbol_name) ==
    MapSeq(LAMBDA d : DependencyInfo(g, d), dependencies_handles(g, symbol_name))

\* CodeGraph::symbols_in_file, as handles
symbols_in_file_handles(g, path) ==
    IF path \in DOMAIN g.file_index
    THEN IF ~is_live(g, g.file_index[path]) THEN << >>
         ELSE MapSeq(LAMBDA e : e.target,
                     SelectSeq(edges_directed(g, g.file_index[path], "Outgoing"),
                               LAMBDA e : e.kind = "Defines" /\ is_live(g, e.target)))
    ELSE << >>

\* CodeGraph::symbols_in_file: the NodeData of each handle
symbols_in_file(g, path) ==
    MapSeq(LAMBDA idx : g.nodes[idx], symbols_in_file_handles(g, path))

\* find_qualified looking the name up in symbol_index, whatever the file
find_qualified_handle_by_name(g, file_path, name) ==
    IF name \in DOMAIN g.symbol_index /\ g.symbol_index[name] # << >>
    THEN IF g.nodes[g.symbol_index[name][1]].removed THEN << >>
         ELSE <<g.symbol_index[name][1]>>
    ELSE << >>

\* CodeGraph::find_qualified, as << >> or <<handle>>
find_qualified_handle(g, file_path, name) ==
    IF <<file_path, name>> \in DOMAIN g.qualified_index
    THEN IF g.nodes[g.qualified_index[<<file_path, name>>]].removed THEN << >>
         ELSE <<g.qualified_index[<<file_path, name>>]>>
    ELSE << >>

\* CodeGraph::find_qualified
find_qualified(g, file_path, name) ==
    MapSeq(LAMBDA idx : g.nodes[idx], find_qualified_handle(g, file_path, name))

\* stats counting only the edges whose two endpoints are live
stats_live_edges(g) ==
    LET file_count == Cardinality({i \in 1..Len(g.nodes) :
                                     ~g.nodes[i].removed /\ g.nodes[i].kind = "File"})
        symbol_count == Cardinality({i \in 1..Len(g.nodes) :
                                     ~g.nodes[i].removed /\ g.nodes[i].kind # "File"})
    IN  [total_nodes |-> file_count + symbol_count,
         total_edges |-> Len(SelectSeq(g.edges, LAMBDA e : /\ ~g.nodes[e.source].removed
                                                           /\ ~g.nodes[e.target].removed)),
         file_count |-> file_count,
         symbol_count |-> symbol_count,
         unique_symbol_names |-> Cardinality(DOMAIN g.symbol_index)]

\* CodeGraph::stats
stats(g) ==
    LET file_count == Cardinality({i \in 1..Len(g.nodes) :
                                     ~g.nodes[i].removed /\ g.nodes[i].kind = "File"})
        symbol_count == Cardinality({i \in 1..Len(g.nodes) :
                                     ~g.nodes[i].removed /\ g.nodes[i].kind # "File"})
    IN  [total_nodes |-> file_count + symbol_count,
         total_edges |-> Len(g.edges),
         file_count |-> file_count,
         symbol_count |-> symbol_count,
         unique_symbol_names |-> Cardinality(DOMAIN g.symbol_index)]

----------------------------------------------------------------------------
(* engine.rs: search_graph *)

MAX_INITIAL_MATCHES == 10
MAX_SYMBOLS == 50
MAX_CONNECTIONS == 100

\* the pass over the edges of idx without the test of the visited set
Expand_revisits(g, st, idx, next_depth, dir) ==
    FoldSeq(LAMBDA acc, edge :
                LET other == IF dir = "Outgoing" THEN edge.target ELSE edge.source
                IN  IF Len(acc.connections) >= MAX_CONNECTIONS THEN acc
                    ELSE IF is_live(g, other)
                    THEN [acc EXCEPT
                           !.visited = @ \cup {other},
                           !.queue = Append(@, [idx |-> other, depth |-> next_depth]),
                           !.connections =
                               IF g.nodes[other].kind # "File"
                               THEN Append(@, IF dir = "Outgoing"
                                              THEN [from |-> idx, to |-> other,
                                                    relationship |-> edge.kind]
                                              ELSE [from |-> other, to |-> idx,
                                                    relationship |-> edge.kind])
                               ELSE @]
                    ELSE acc,
            st, edges_directed(g, idx, dir))

\* one pass over the edges of idx in one direction: every live neighbour not
\* yet visited is marked visited, queued at next_depth and, unless it is a
\* File node, recorded as a connection
Expand(g, st, idx, next_depth, dir) ==
    FoldSeq(LAMBDA acc, edge :
                LET other == IF dir = "Outgoing" THEN edge.target ELSE edge.source
                IN  IF Len(acc.connections) >= MAX_CONNECTIONS THEN acc
                    ELSE IF is_live(g, other) /\ other \notin acc.visited
                    THEN [acc EXCEPT
                           !.visited = @ \cup {other},
                           !.queue = Append(@, [idx |-> other, depth |-> next_depth]),
                           !.connections =
                               IF g.nodes[other].kind # "File"
                               THEN Append(@, IF dir = "Outgoing"
                                              THEN [from |-> idx, to |-> other,
                                                    relationship |-> edge.kind]
                                              ELSE [from |-> other, to |-> idx,
                                                    relationship |-> edge.kind])
                               ELSE @]
                    ELSE acc,
            st, edges_directed(g, idx, dir))

\* file mode: the live files that match, in the order file_index.iter() yields
FileMatches(g, query, file_order) ==
    LET query_lower == to_lowercase(query)
    IN  Take(SelectSeq(file_order,
                LAMBDA path :
                    /\ is_live(g, g.file_index[path])
                    /\ \/ contains(to_lowercase(path), query_lower)
                       \/ contains(to_lowercase(file_name(path)), query_lower)),
             MAX_INITIAL_MATCHES)

\* file mode: matched_files and the symbols each matched file defines
FileSymbols(g, file_matches) ==
    FoldSeq(LAMBDA acc, path :
                IF Len(acc.symbols) >= MAX_SYMBOLS THEN acc
                ELSE FoldSeq(LAMBDA a, edge :
                                IF Len(a.symbols) >= MAX_SYMBOLS THEN a
                                ELSE IF edge.kind = "Defines" /\ is_live(g, edge.target)
                                THEN [a EXCEPT !.symbols = Append(@, edge.target)]
                                ELSE a,
                             [acc EXCEPT !.matched_files = Append(@, path)],
                             edges_directed(g, g.file_index[path], "Outgoing")),
            [matched_files |-> << >>, symbols |-> << >>],
            file_matches)

\* file mode: one layer of connections from the symbols of the matched files
FileConnections(g, symbol_indexes) ==
    FoldSeq(LAMBDA acc, idx :
                IF Len(acc.connections) >= MAX_CONNECTIONS THEN acc
                ELSE Expand(g, Expand(g, acc, idx, 1, "Outgoing"), idx, 1, "Incoming"),
            [visited |-> Range(symbol_indexes), queue |-> << >>, connections |-> << >>],
            symbol_indexes).connections

\* symbol mode: the matching live symbols without the take(MAX_INITIAL_MATCHES)
SymbolMatches_untaken(g, query, iter_order) ==
    LET query_lower == to_lowercase(query)
        names == SelectSeq(iter_order,
                    LAMBDA name : \/ to_lowercase(name) = query_lower
                                  \/ starts_with(to_lowercase(name), query_lower))
        handles == FoldSeq(LAMBDA acc, name : acc \o g.symbol_index[name], << >>, names)
    IN  SelectSeq(handles, LAMBDA idx : is_live(g, idx))

\* symbol mode: the live symbols whose name equals or starts with the query,
\* in the order symbol_index.iter() yields the names
SymbolMatches(g, query, iter_order) ==
    LET query_lower == to_lowercase(query)
        names == SelectSeq(iter_order,
                    LAMBDA name : \/ to_lowercase(name) = query_lower
                                  \/ starts_with(to_lowercase(name), query_lower))
        handles == FoldSeq(LAMBDA acc, name : acc \o g.symbol_index[name], << >>, names)
    IN  Take(SelectSeq(handles, LAMBDA idx : is_live(g, idx)), MAX_INITIAL_MATCHES)

\* symbol mode: the `while let Some(..) = queue.pop_front()` loop
RECURSIVE Bfs(_, _, _)
Bfs(g, depth, st) ==
    IF st.queue = << >> THEN st
    ELSE LET idx == Head(st.queue).idx
             current_depth == Head(st.queue).depth
             popped == [st EXCEPT !.queue = Tail(@)]
         IN  IF /\ Len(popped.symbols) >= MAX_SYMBOLS
                /\ Len(popped.connections) >= MAX_CONNECTIONS
             THEN popped
             ELSE LET pushed ==
                          IF g.nodes[idx].kind # "File" /\ Len(popped.symbols) < MAX_SYMBOLS
                          THEN [popped EXCEPT !.symbols = Append(@, idx)]
                          ELSE popped
                      expanded ==
                          IF current_depth < depth /\ Len(pushed.connections) < MAX_CONNECTIONS
                          THEN Expand(g, Expand(g, pushed, idx, current_depth + 1, "Outgoing"),
                                      idx, current_depth + 1, "Incoming")
                          ELSE pushed
                  IN  Bfs(g, depth, expanded)

\* CodeGraph::search_graph, as handles; file_order and iter_order are the
\* orders in which file_index.iter() and symbol_index.iter() yield their keys
search_graph_handles(g, query, depth, file_order, iter_order) ==
    LET file_matches == FileMatches(g, query, file_order)
        symbol_matches == SymbolMatches(g, query, iter_order)
    IN  IF file_matches # << >>
        THEN LET fs == FileSymbols(g, file_matches)
                 connections == IF depth > 0 THEN FileConnections(g, fs.symbols) ELSE << >>
             IN  [match_type |-> "file", matched_files |-> fs.matched_files,
                  symbols |-> fs.symbols, connections |-> connections,
                  truncated |-> \/ Len(fs.symbols) >= MAX_SYMBOLS
                                \/ Len(connections) >= MAX_CONNECTIONS]
        ELSE IF symbol_matches = << >>
        THEN [match_type |-> "none", matched_files |-> << >>, symbols |-> << >>,
              connections |-> << >>, truncated |-> FALSE]
        ELSE LET st == Bfs(g, depth,
                           [visited |-> Range(symbol_matches),
                            queue |-> MapSeq(LAMBDA idx : [idx |-> idx, depth |-> 0],
                                             symbol_matches),
                            symbols |-> << >>, connections |-> << >>])
             IN  [match_type |-> "symbol", matched_files |-> << >>,
                  symbols |-> st.symbols, connections |-> st.connections,
                  truncated |-> \/ Len(st.symbols) >= MAX_SYMBOLS
                                \/ Len(st.connections) >= MAX_CONNECTIONS]

SymbolInfo(g, idx) ==
    [name |-> g.nodes[idx].name, kind |-> g.nodes[idx].kind, file |-> g.nodes[idx].file_path,
     line |-> g.nodes[idx].line_start, code |-> g.nodes[idx].code_snippet]

ConnectionInfo(g, c) ==
    [from |-> g.nodes[c.from].name, to |-> g.nodes[c.to].name,
     relationship |-> c.relationship]

\* CodeGraph::search_graph: the GraphSearchResult built from the handles
search_graph(g, query, depth, file_order, iter_order) ==
    LET r == search_graph_handles(g, query, depth, file_order, iter_order)
    IN  [r EXCEPT !.symbols = MapSeq(LAMBDA idx : SymbolInfo(g, idx), @),
                  !.connections = MapSeq(LAMBDA c : ConnectionInfo(g, c), @)]

----------------------------------------------------------------------------
(* Inputs: paths, names and the extractions the extractor can deliver *)

PA == <<"a">>
PB == <<"d", "/", "b">>
PC == <<"c">>              \* a path that is never ingested
Paths == {PA, PB}

NF == <<"f">>
NG == <<"g">>
NH == <<"h">>
NM == <<"m">>

V1 == <<"1">>
V2 == <<"2">>

None == << >>
Some(x) == <<x>>

ExtractedSymbol(name, kind, line_start, line_end, code_snippet, parent) ==
    [name |-> name, kind |-> kind, line_start |-> line_start, line_end |-> line_end,
     code_snippet |-> code_snippet, parent |-> parent]

ExtractedImport(path, line) == [path |-> path, line |-> line]

ExtractedCall(callee, caller, line) == [callee |-> callee, caller |-> caller, line |-> line]

FileExtractions(file_path, symbols, imports, calls) ==
    [file_path |-> file_path, symbols |-> symbols, imports |-> imports, calls |-> calls]

\* a.: fn f (first version)
EA1 == FileExtractions(PA, <<ExtractedSymbol(NF, "Function", 1, 2, V1, None)>>, << >>, << >>)

\* a.: fn f (second version) containing method g, which calls f; imports m
EA2 == FileExtractions(PA,
          <<ExtractedSymbol(NF, "Function", 1, 3, V2, None),
            ExtractedSymbol(NG, "Method", 2, 2, V1, Some(NF))>>,
          <<ExtractedImport(NM, 1)>>,
          <<ExtractedCall(NF, NG, 2)>>)

\* d/b: fn h, which calls f (defined elsewhere); imports m
EB1 == FileExtractions(PB, <<ExtractedSymbol(NH, "Function", 1, 1, V1, None)>>,
          <<ExtractedImport(NM, 1)>>,
          <<ExtractedCall(NF, NH, 1)>>)

\* d/b: its own fn f, in place of h
EB2 == FileExtractions(PB, <<ExtractedSymbol(NF, "Function", 4, 4, V2, None)>>, << >>, << >>)

\* a.: method g alone, whose parent f the file no longer defines
EA3 == FileExtractions(PA, <<ExtractedSymbol(NG, "Method", 2, 2, V1, Some(NF))>>, << >>, << >>)

Extractions == {EA1, EA2, EB1, EB2}

ExtractionsOf(path) == {e \in Extractions : e.file_path = path}

\* the extraction lists a build can be given
ExtractionLists ==
    UNION {[1..n -> Extractions] : n \in 1..MaxBuildLen}

----------------------------------------------------------------------------
(* The state machine *)

Op(name, path, exts) == [op |-> name, path |-> path, exts |-> exts]

Init ==
    /\ graph = new
    /\ last_op = Op("new", << >>, << >>)
    /\ wlock = FALSE
    /\ rlock = 0
    /\ wpc = "idle"
    /\ wjob = Op("none", << >>, << >>)
    /\ rpc = "idle"
    /\ sg = [pc |-> "idle"]
    /\ srv = [pc |-> "start"]

Threads == <<wlock, rlock, wpc, wjob, rpc, sg, srv>>

\* one completed operation that takes the graph to g
Completes(g, op) ==
    \E after \in {g} :
        /\ Len(after.nodes) <= MaxNodes
        /\ graph' = after
        /\ last_op' = op

\* the symbol and import nodes phase 1 adds for a list of extractions
NewSymbols(extractions) ==
    FoldSeq(LAMBDA n, e : n + Len(e.symbols) + Len(e.imports), 0, extractions)

\* graph.build_from_extractions(extractions)
BuildFromExtractions ==
    \E extractions \in ExtractionLists :
        /\ Len(graph.nodes) + NewSymbols(extractions) <= MaxNodes
        /\ Completes(build_from_extractions(graph, extractions),
                     Op("build_from_extractions", << >>, extractions))
        /\ UNCHANGED Threads

\* graph.remove_file(path); this is also all that builder::rebuild_file does to
\* the graph when read_to_string or extract_file fails
RemoveFile ==
    \E path \in Paths :
        /\ Completes(remove_file(graph, path), Op("remove_file", path, << >>))
        /\ UNCHANGED Threads

\* rebuild_file without the remove_file call
rebuild_file_without_remove(g, extraction) == build_from_extractions(g, <<extraction>>)

\* builder::rebuild_file, when the file is read and extracted
rebuild_file(g, extraction) ==
    build_from_extractions(remove_file(g, extraction.file_path), <<extraction>>)

RebuildFile ==
    \E extraction \in Extractions :
        /\ Len(graph.nodes) + NewSymbols(<<extraction>>) <= MaxNodes
        /\ Completes(rebuild_file(graph, extraction),
                     Op("rebuild_file", extraction.file_path, <<extraction>>))
        /\ UNCHANGED Threads

\* graph.compact(); the completed operation records how many stored nodes and
\* edges the compaction dropped
Compact ==
    \E key_order \in Orders(LiveFilePaths(graph)) :
        \E compacted \in {compact(graph, key_order)} :
            /\ Completes(compacted,
                         [op |-> "compact", path |-> << >>, exts |-> << >>,
                          reclaimed_nodes |-> Len(graph.nodes) - Len(compacted.nodes),
                          reclaimed_edges |-> Len(graph.edges) - Len(compacted.edges)])
            /\ UNCHANGED Threads

Next ==
    \/ BuildFromExtractions
    \/ RemoveFile
    \/ RebuildFile
    \/ Compact

Spec == Init /\ [][Next]_vars

----------------------------------------------------------------------------
(* The engine's public operations called directly, as the unit tests do *)

\* d/b: fn h, which calls f; no imports
EB3 == FileExtractions(PB, <<ExtractedSymbol(NH, "Function", 1, 1, V1, None)>>, << >>,
          <<ExtractedCall(NF, NH, 1)>>)

\* graph.add_file(path)
AddFile ==
    \E path \in Paths :
        /\ Len(graph.nodes) < MaxApiNodes
        /\ Completes(add_file(graph, path).g, Op("add_file", path, << >>))
        /\ UNCHANGED Threads

\* graph.add_symbol(name, kind, file_path, line_start, line_end, code_snippet)
AddSymbol ==
    \E e \in {EA1, EB3} :
        /\ Len(graph.nodes) < MaxApiNodes
        /\ Completes(add_symbol(graph, e.symbols[1].name, e.symbols[1].kind, e.file_path,
                                e.symbols[1].line_start, e.symbols[1].line_end,
                                e.symbols[1].code_snippet).g,
                     Op("add_symbol", e.file_path, << >>))
        /\ UNCHANGED Threads

\* graph.add_edge(from, to, kind), from any stored node to any node stored
\* after it: Defines out of a File node, Calls out of a symbol
AddEdge ==
    \E from \in 1..Len(graph.nodes), to \in 1..Len(graph.nodes) :
        /\ from < to
        /\ Len(graph.edges) < MaxApiEdges
        /\ Completes(add_edge(graph, from, to,
                              IF graph.nodes[from].kind = "File" THEN "Defines" ELSE "Calls"),
                     Op("add_edge", << >>, << >>))
        /\ UNCHANGED Threads

\* graph.build_from_extractions(vec![extraction]) on a graph built by hand
ApiBuildFromExtractions ==
    \E extraction \in {EA1, EB3} :
        /\ Len(graph.nodes) + NewSymbols(<<extraction>>) < MaxApiNodes
        /\ Completes(build_from_extractions(graph, <<extraction>>),
                     Op("build_from_extractions", << >>, <<extraction>>))
        /\ UNCHANGED Threads

NextApi ==
    \/ AddFile
    \/ AddSymbol
    \/ AddEdge
    \/ ApiBuildFromExtractions
    \/ RemoveFile
    \/ Compact

SpecApi == Init /\ [][NextApi]_vars

----------------------------------------------------------------------------
(* The live-update pipeline: the watcher thread mutates the shared graph    *)
(* through builder::rebuild_file or remove_file while the RPC handler      *)
(* answers tools/call requests.  Both reach the graph through one          *)
(* Arc<RwLock<CodeGraph>>.                                                  *)

\* RwLock::write can be granted: no guard of either kind is alive
write_available(w, r) == ~w /\ r = 0

\* RwLock::read granted whether or not a write guard is alive
read_available_always(w) == TRUE

\* RwLock::read can be granted: no write guard is alive
read_available(w) == ~w

\* the watcher takes the write lock for one flushed path; rebuild_file and
\* remove_file need `&mut CodeGraph`, which only the write guard gives
W_Lock ==
    /\ wpc = "idle"
    /\ write_available(wlock, rlock)
    /\ \E path \in Paths, job \in {"rebuild_file", "remove_file"} :
           wjob' = Op(job, path, << >>)
    /\ wlock' = TRUE
    /\ wpc' = "locked"
    /\ UNCHANGED <<graph, last_op, rlock, rpc, sg, srv>>

\* graph.remove_file(file_path): first statement of rebuild_file, or the whole
\* of the watcher's handling of a deleted file
W_RemoveFile ==
    /\ wpc = "locked"
    /\ graph' = remove_file(graph, wjob.path)
    /\ wpc' = IF wjob.op = "rebuild_file" THEN "io" ELSE "done"
    /\ UNCHANGED <<last_op, wlock, rlock, wjob, rpc, sg, srv>>

\* fs::read_to_string(file_path)? and extract_file(file_path, &source)?:
\* either yields the extraction of what is on disk, or returns the error
W_ReadToString ==
    /\ wpc = "io"
    /\ \/ \E extraction \in ExtractionsOf(wjob.path) :
              /\ Len(graph.nodes) + NewSymbols(<<extraction>>) < MaxNodes
              /\ wjob' = [wjob EXCEPT !.exts = <<extraction>>]
              /\ wpc' = "phase1"
       \/ /\ wjob' = [wjob EXCEPT !.op = "rebuild_file_failed"]
          /\ wpc' = "done"
    /\ UNCHANGED <<graph, last_op, wlock, rlock, rpc, sg, srv>>

\* build_from_extractions, phase 1
W_Phase1 ==
    /\ wpc = "phase1"
    /\ graph' = Phase1(graph, wjob.exts)
    /\ wpc' = "phase2"
    /\ UNCHANGED <<last_op, wlock, rlock, wjob, rpc, sg, srv>>

\* build_from_extractions, phase 2
W_Phase2 ==
    /\ wpc = "phase2"
    /\ graph' = Phase2(graph, wjob.exts)
    /\ wpc' = "phase3"
    /\ UNCHANGED <<last_op, wlock, rlock, wjob, rpc, sg, srv>>

\* build_from_extractions, phase 3
W_Phase3 ==
    /\ wpc = "phase3"
    /\ graph' = Phase3(graph, wjob.exts)
    /\ wpc' = "done"
    /\ UNCHANGED <<last_op, wlock, rlock, wjob, rpc, sg, srv>>

\* the write guard is dropped when the call has returned
W_Unlock ==
    /\ wpc = "done"
    /\ wlock' = FALSE
    /\ wpc' = "idle"
    /\ last_op' = wjob
    /\ UNCHANGED <<graph, rlock, wjob, rpc, sg, srv>>

\* handle_request, tools/call: graph.read()
R_Lock ==
    /\ rpc = "idle"
    /\ read_available(wlock)
    /\ rlock' = rlock + 1
    /\ rpc' = "call_tool"
    /\ UNCHANGED <<graph, last_op, wlock, wpc, wjob, sg, srv>>

\* tools::call_tool(&graph_guard, ..) has run; the guard is dropped on return
R_Unlock ==
    /\ rpc = "call_tool"
    /\ rlock' = rlock - 1
    /\ rpc' = "idle"
    /\ UNCHANGED <<graph, last_op, wlock, wpc, wjob, sg, srv>>

NextConc ==
    \/ W_Lock
    \/ W_RemoveFile
    \/ W_ReadToString
    \/ W_Phase1
    \/ W_Phase2
    \/ W_Phase3
    \/ W_Unlock
    \/ R_Lock
    \/ R_Unlock

SpecConc == Init /\ [][NextConc]_vars

----------------------------------------------------------------------------
(* Properties *)

LiveNodes(g) == {i \in 1..Len(g.nodes) : ~g.nodes[i].removed}

QueryStrings == {<< >>, NF, NH, NM, <<"F">>, <<"b">>, PA}
Limits == {1, 3}
Depths == {0, 1, 2}

\* the queries that tell the graphs of SpecApi apart: everything, an exact name
\* of each file's symbol, and a file-name fragment
ApiQueryStrings == {<< >>, NF, <<"b">>}
ApiDepths == {0, 2}

\* the handles one search result reports
Reported(r) == {r.node} \cup Range(r.calls) \cup Range(r.called_by) \cup Range(r.imports)

\* the handles a search_graph result reports
GraphReported(g, r) ==
    {g.file_index[path] : path \in Range(r.matched_files)}
        \cup Range(r.symbols)
        \cup {c.from : c \in Range(r.connections)}
        \cup {c.to : c \in Range(r.connections)}

\* the Calls edges left dangling at a live callee by the removal of the caller
DanglingCallers(g) ==
    {e \in Range(g.edges) :
        /\ e.kind = "Calls"
        /\ g.nodes[e.source].removed
        /\ ~g.nodes[e.target].removed
        /\ g.nodes[e.target].kind # "File"}

\* C1: whatever sequence of add_file, add_symbol, add_edge,
\* build_from_extractions, remove_file and compact led to the graph, every node
\* reported by search, search_graph, dependents, dependencies, symbols_in_file
\* and find_qualified is live, the calls / called_by / imports of every search
\* result are live, a live callee whose caller was removed is still found by
\* search and no longer lists that caller, and stats counts the live nodes only.
C1_QueriesReportLiveNodes ==
    /\ \A iter_order \in Orders(DOMAIN graph.symbol_index) :
        /\ \A query \in ApiQueryStrings, limit \in Limits :
             \A r \in Range(search_handles(graph, query, limit, iter_order)) :
                 Reported(r) \subseteq LiveNodes(graph)
        /\ \A query \in ApiQueryStrings, depth \in ApiDepths,
              file_order \in Orders(DOMAIN graph.file_index) :
             GraphReported(graph,
                 search_graph_handles(graph, query, depth, file_order, iter_order))
                 \subseteq LiveNodes(graph)
        /\ \A e \in DanglingCallers(graph) :
             \E r \in Range(search_handles(graph, graph.nodes[e.target].name,
                                           Len(graph.nodes), iter_order)) :
                 r.node = e.target /\ e.source \notin Range(r.called_by)
    /\ \A name \in ApiQueryStrings :
        /\ \A d \in Range(dependents_handles(graph, name)) : d.node \in LiveNodes(graph)
        /\ \A d \in Range(dependencies_handles(graph, name)) : d.node \in LiveNodes(graph)
    /\ \A path \in Paths \cup {PC} :
        /\ Range(symbols_in_file_handles(graph, path)) \subseteq LiveNodes(graph)
        /\ \A name \in ApiQueryStrings :
             Range(find_qualified_handle(graph, path, name)) \subseteq LiveNodes(graph)
    /\ stats(graph).file_count =
           Cardinality({i \in LiveNodes(graph) : graph.nodes[i].kind = "File"})
    /\ stats(graph).symbol_count =
           Cardinality({i \in LiveNodes(graph) : graph.nodes[i].kind # "File"})

\* C1 witness: remove_file has just soft-deleted a caller whose callee lives on
C1_Witness ==
    /\ last_op.op = "remove_file"
    /\ \E e \in DanglingCallers(graph) : graph.nodes[e.source].file_path = last_op.path

\* no index entry designates a removed node and no symbol_index list is empty
IndexesLive(g) ==
    /\ \A name \in DOMAIN g.symbol_index :
        /\ g.symbol_index[name] # << >>
        /\ \A idx \in Range(g.symbol_index[name]) : is_live(g, idx)
    /\ \A key \in DOMAIN g.qualified_index : is_live(g, g.qualified_index[key])

\* the File nodes of a path and what they reach by one Defines or Imports edge
FileAndChildren(g, path) ==
    LET files == {i \in 1..Len(g.nodes) :
                    g.nodes[i].kind = "File" /\ g.nodes[i].file_path = path}
    IN  files \cup {e.target : e \in {x \in Range(g.edges) :
                                        x.source \in files /\ x.kind \in {"Defines", "Imports"}}}

\* C2: in every state reached through build_from_extractions, remove_file,
\* rebuild_file and compact no index entry designates a removed node and no
\* symbol_index list is empty; and right after remove_file(p) the File node of p
\* and its Defines / Imports children are removed and file_index has no entry p.
C2_RemoveFilePurges ==
    /\ IndexesLive(graph)
    /\ last_op.op = "remove_file" =>
        /\ last_op.path \notin DOMAIN graph.file_index
        /\ \A i \in FileAndChildren(graph, last_op.path) : graph.nodes[i].removed

\* C2 witness: remove_file has soft-deleted a file with a symbol and an import
\* while another file stays live
C2_Witness ==
    /\ last_op.op = "remove_file"
    /\ \E e \in Range(graph.edges) :
        /\ e.kind = "Imports"
        /\ graph.nodes[e.source].file_path = last_op.path
        /\ graph.nodes[e.target].removed
    /\ \E e \in Range(graph.edges) :
        /\ e.kind = "Defines"
        /\ graph.nodes[e.source].file_path = last_op.path
        /\ graph.nodes[e.target].removed
    /\ LiveNodes(graph) # {}


\* the stored edges of the given kinds that arrive at node i, in storage order
IncomingOfKinds(g, i, kinds) ==
    SelectSeq(g.edges, LAMBDA e : e.target = i /\ e.kind \in kinds)

\* the live File node of s.file_path is the source of exactly one edge of the
\* kind `kind` arriving at i, and no other edge of the kinds `among` arrives
OwnedByFile(g, i, kind, among) ==
    LET path == g.nodes[i].file_path
        inc == IncomingOfKinds(g, i, among)
    IN  /\ path \in DOMAIN g.file_index
        /\ g.nodes[g.file_index[path]].kind = "File"
        /\ ~g.nodes[g.file_index[path]].removed
        /\ Len(inc) = 1
        /\ inc[1].kind = kind
        /\ inc[1].source = g.file_index[path]

\* C3 (as stated): in every state reached through build_from_extractions,
\* remove_file, rebuild_file and compact, every live non-File node, the
\* Import-kind nodes included, has its file_path in file_index, mapped to a live
\* File node, and has exactly one incoming Defines edge, from that File node.
C3_Original ==
    \A i \in LiveNodes(graph) :
        graph.nodes[i].kind # "File" => OwnedByFile(graph, i, "Defines", {"Defines"})

\* C3 (amended): in every such state every live non-File node has its file_path
\* in file_index, mapped to a live File node, and has exactly one incoming edge
\* among the Defines and Imports edges; it comes from that File node and is an
\* Imports edge for an Import-kind node and a Defines edge for any other node.
C3_SymbolsOwnedByLiveFile ==
    \A i \in LiveNodes(graph) :
        graph.nodes[i].kind # "File" =>
            OwnedByFile(graph, i,
                        IF graph.nodes[i].kind = "Import" THEN "Imports" ELSE "Defines",
                        {"Defines", "Imports"})

\* C3 witness: a rebuilt file owns a live import and a live symbol, while the
\* nodes of its previous version are still stored
C3_Witness ==
    /\ last_op.op = "rebuild_file"
    /\ \E i \in LiveNodes(graph), j \in LiveNodes(graph) :
        /\ graph.nodes[i].kind = "Import"
        /\ graph.nodes[j].kind \notin {"Import", "File"}
        /\ graph.nodes[i].file_path = last_op.path
        /\ graph.nodes[j].file_path = last_op.path
    /\ \E k \in 1..Len(graph.nodes) :
        graph.nodes[k].removed /\ graph.nodes[k].file_path = last_op.path


\* the payload of a stored node, apart from its removed flag
Payload(node) == [node EXCEPT !.removed = FALSE]

\* the multiset of the live symbol and import nodes of file path in g
LivePayloads(g, path) ==
    BagOf(MapSeq(Payload,
                 SelectSeq(g.nodes, LAMBDA n : /\ ~n.removed
                                               /\ n.kind # "File"
                                               /\ n.file_path = path)))

\* the multiset of the nodes phase 1 creates for the symbols and imports of e
ExtractionPayloads(e) ==
    BagOf(MapSeq(LAMBDA s : new_symbol(s.name, s.kind, e.file_path, s.line_start,
                                       s.line_end, s.code_snippet), e.symbols)
          \o MapSeq(LAMBDA i : new_symbol(i.path, "Import", e.file_path, i.line, i.line,
                                          << >>), e.imports))

\* file e.file_path is in g and its live contents are those of extraction e
HoldsExtraction(g, e) ==
    e.file_path \in DOMAIN g.file_index /\ LivePayloads(g, e.file_path) = ExtractionPayloads(e)

\* remove_file(p), add_file(p), then build_from_extractions of e, for p = e.file_path
remove_add_ingest(g, e) ==
    build_from_extractions(add_file(remove_file(g, e.file_path), e.file_path).g, <<e>>)

\* stats() apart from total_edges
LiveCounts(g) ==
    [total_nodes |-> stats(g).total_nodes, file_count |-> stats(g).file_count,
     symbol_count |-> stats(g).symbol_count,
     unique_symbol_names |-> stats(g).unique_symbol_names]

\* the File node of path that was soft-deleted last before the live one was added
PreviousFileNode(g, path) ==
    LET old == {i \in 1..Len(g.nodes) : /\ g.nodes[i].kind = "File"
                                        /\ g.nodes[i].file_path = path
                                        /\ g.nodes[i].removed
                                        /\ i < g.file_index[path]}
    IN  IF old = {} THEN 0 ELSE CHOOSE i \in old : \A j \in old : j <= i

\* the multiset of the nodes the previous File node of path defined or imported
PreviousPayloads(g, path) ==
    BagOf(MapSeq(LAMBDA e : Payload(g.nodes[e.target]),
                 SelectSeq(g.edges, LAMBDA e : e.source = PreviousFileNode(g, path))))

\* a step that re-ingests, through rebuild_file, the extraction the file held
ReingestsSame ==
    /\ last_op'.op = "rebuild_file"
    /\ HoldsExtraction(graph, last_op'.exts[1])
    /\ graph' = remove_add_ingest(graph, last_op'.exts[1])

\* C4 (as stated): remove_file(p), add_file(p) and build_from_extractions of the
\* extraction p holds leave stats() equal, in every field, to stats() just
\* before the removal.
C4_Original ==
    [][ReingestsSame => stats(graph') = stats(graph)]_vars

\* C4 (amended): remove_file(p), add_file(p) and build_from_extractions of the
\* extraction p holds is the step rebuild_file takes, and leaves total_nodes,
\* file_count, symbol_count and unique_symbol_names of stats() as they were
\* just before the removal, while total_edges grows by at least one edge per
\* symbol and import of the extraction.
C4_ReingestKeepsLiveCounts ==
    [][/\ (last_op'.op = "rebuild_file" /\ HoldsExtraction(graph, last_op'.exts[1]))
            => ReingestsSame
       /\ ReingestsSame =>
            /\ LiveCounts(graph') = LiveCounts(graph)
            /\ stats(graph').total_edges >=
                   stats(graph).total_edges + NewSymbols(last_op'.exts)]_vars

\* C4 witness: rebuild_file has re-ingested the extraction whose nodes the
\* file's previous File node owned
C4_Witness ==
    /\ last_op.op = "rebuild_file"
    /\ PreviousFileNode(graph, last_op.path) # 0
    /\ PreviousPayloads(graph, last_op.path) = ExtractionPayloads(last_op.exts[1])
    /\ HoldsExtraction(graph, last_op.exts[1])


\* the results search(query, limit) returns, as multisets, over the given
\* orders in which symbol_index.iter() can yield its keys
SearchAnswers(g, query, limit, orders) ==
    {BagOf(search(g, query, limit, o)) : o \in orders}

\* dependents, dependencies and symbols_in_file answer alike, as multisets, on g and h
SameRelations(g, h) ==
    /\ \A n \in QueryStrings :
        /\ BagOf(dependents(g, n)) = BagOf(dependents(h, n))
        /\ BagOf(dependencies(g, n)) = BagOf(dependencies(h, n))
    /\ \A p \in Paths \cup {PC} :
        BagOf(symbols_in_file(g, p)) = BagOf(symbols_in_file(h, p))

\* the stored edges of g whose two endpoints are live
LiveEdges(g) ==
    SelectSeq(g.edges, LAMBDA e : ~g.nodes[e.source].removed /\ ~g.nodes[e.target].removed)

\* the search queries compared across a compaction: everything, an exact name,
\* and the same name in another case
CompactQueries == {<< >>, NF, <<"F">>}

\* C5 (as stated): compact() changes no query answer: search(q) for every q and
\* limit, dependents(n), dependencies(n), symbols_in_file(p) and stats() return
\* the same multisets of results just before and just after compact().
C5_Original ==
    [][last_op'.op = "compact" =>
        /\ \A q \in CompactQueries, limit \in {1, Len(graph.nodes)} :
             \A before \in SearchAnswers(graph, q, limit,
                                         Orders(DOMAIN graph.symbol_index)),
                after \in SearchAnswers(graph', q, limit,
                                        Orders(DOMAIN graph'.symbol_index)) :
                 before = after
        /\ SameRelations(graph, graph')
        /\ stats(graph') = stats(graph)]_vars

\* C5 (amended): across compact() dependents(n), dependencies(n) and
\* symbols_in_file(p) return the same multisets; search(q, limit) has the same
\* set of possible results, and one result only when limit does not cut the
\* matches; stats() keeps total_nodes, file_count, symbol_count and
\* unique_symbol_names, and total_edges becomes the number of edges whose two
\* endpoints were live.
C5_CompactKeepsAnswers ==
    [][last_op'.op = "compact" =>
        /\ DOMAIN graph'.symbol_index = DOMAIN graph.symbol_index
        /\ \E orders \in {Orders(DOMAIN graph.symbol_index)} :
             \A q \in CompactQueries, limit \in {1, Len(graph.nodes)} :
                 \E before \in {SearchAnswers(graph, q, limit, orders)} :
                    /\ SearchAnswers(graph', q, limit, orders) = before
                    /\ limit = Len(graph.nodes) => Cardinality(before) = 1
        /\ SameRelations(graph, graph')
        /\ LiveCounts(graph') = LiveCounts(graph)
        /\ stats(graph').total_edges = Len(LiveEdges(graph))
        /\ stats(graph').total_edges <= stats(graph).total_edges]_vars

\* C5 witness: compact has dropped soft-deleted nodes and dangling edges from a
\* graph that keeps a call between live symbols of two names
C5_Witness ==
    /\ last_op.op = "compact"
    /\ last_op.reclaimed_nodes > 0
    /\ last_op.reclaimed_edges > 0
    /\ \E e \in Range(graph.edges) : e.kind = "Calls"
    /\ Cardinality(DOMAIN graph.symbol_index) >= 2


\* the multiset of the payloads of the live nodes of g
LiveNodePayloads(g) ==
    BagOf(MapSeq(Payload, SelectSeq(g.nodes, LAMBDA n : ~n.removed)))

\* the multiset of the edges of g between live nodes, endpoints named by payload
LiveEdgePayloads(g) ==
    BagOf(MapSeq(LAMBDA e : [source |-> Payload(g.nodes[e.source]),
                             target |-> Payload(g.nodes[e.target]), kind |-> e.kind],
                 LiveEdges(g)))

\* the three indexes designate stored nodes of g that carry the indexed key
IndexesWithinStore(g) ==
    /\ \A path \in DOMAIN g.file_index :
        /\ g.file_index[path] \in 1..Len(g.nodes)
        /\ g.nodes[g.file_index[path]].kind = "File"
        /\ g.nodes[g.file_index[path]].file_path = path
    /\ \A name \in DOMAIN g.symbol_index :
        \A idx \in Range(g.symbol_index[name]) :
            idx \in 1..Len(g.nodes) /\ g.nodes[idx].name = name
    /\ \A key \in DOMAIN g.qualified_index :
        /\ g.qualified_index[key] \in 1..Len(g.nodes)
        /\ g.nodes[g.qualified_index[key]].file_path = key[1]
        /\ g.nodes[g.qualified_index[key]].name = key[2]

\* C6: right after compact() no stored node is removed, every stored edge joins
\* two stored live nodes, the live nodes are those live before (same payloads,
\* same multiplicity), the stored edges are the earlier edges between live nodes
\* (same kind, same multiplicity), and file_index, symbol_index and
\* qualified_index designate nodes of the new graph only.
C6_CompactPostCondition ==
    [][last_op'.op = "compact" =>
        /\ \A i \in 1..Len(graph'.nodes) : ~graph'.nodes[i].removed
        /\ \A e \in Range(graph'.edges) :
            e.source \in LiveNodes(graph') /\ e.target \in LiveNodes(graph')
        /\ LiveNodePayloads(graph') = LiveNodePayloads(graph)
        /\ Len(graph'.nodes) = Cardinality(LiveNodes(graph))
        /\ LiveEdgePayloads(graph') = LiveEdgePayloads(graph)
        /\ Len(graph'.edges) = Len(LiveEdges(graph))
        /\ IndexesWithinStore(graph')]_vars

\* C6 witness: compact has dropped soft-deleted nodes and dangling edges and
\* left two live files with edges between their nodes
C6_Witness ==
    /\ last_op.op = "compact"
    /\ last_op.reclaimed_nodes > 0
    /\ last_op.reclaimed_edges > 0
    /\ Cardinality(DOMAIN graph.file_index) = 2
    /\ graph.edges # << >>


\* the names extraction e gives to exactly one of its symbols and imports
NamesDefinedOnce(e) ==
    LET names == MapSeq(LAMBDA s : s.name, e.symbols) \o MapSeq(LAMBDA i : i.path, e.imports)
    IN  {names[i] : i \in {j \in 1..Len(names) :
                             \A k \in 1..Len(names) : names[k] = names[j] => k = j}}

\* the snippet extraction e gives to name
SnippetOf(e, name) ==
    IF \E i \in 1..Len(e.symbols) : e.symbols[i].name = name
    THEN e.symbols[CHOOSE i \in 1..Len(e.symbols) : e.symbols[i].name = name].code_snippet
    ELSE << >>

\* the live File nodes of path
LiveFileNodes(g, path) ==
    {i \in LiveNodes(g) : g.nodes[i].kind = "File" /\ g.nodes[i].file_path = path}

\* the live symbol and import nodes of the files other than path
LiveSymbolsElsewhere(g, path) ==
    {i \in LiveNodes(g) : g.nodes[i].kind # "File" /\ g.nodes[i].file_path # path}

\* after rebuild_file of e on g gave h: path holds the nodes of e and no others,
\* under one live File node, and stats counts them once
HoldsLatestOnly(g, h, e) ==
    /\ HoldsExtraction(h, e)
    /\ Cardinality(LiveFileNodes(h, e.file_path)) = 1
    /\ stats(h).symbol_count =
           Cardinality(LiveSymbolsElsewhere(g, e.file_path)) + NewSymbols(<<e>>)
    /\ stats(h).file_count =
           Cardinality({i \in LiveNodes(g) : /\ g.nodes[i].kind = "File"
                                             /\ g.nodes[i].file_path # e.file_path}) + 1

\* C7 (as stated): after remove_file(p) and a re-ingest of p with new contents
\* the live nodes of p are exactly the symbols and imports of the latest
\* ingest, stats() counts one File node for p and only the new symbols, and
\* search for a name the new contents define once returns exactly one result,
\* carrying the new snippet.
C7_Original ==
    [][last_op'.op = "rebuild_file" =>
        /\ HoldsLatestOnly(graph, graph', last_op'.exts[1])
        /\ \A name \in NamesDefinedOnce(last_op'.exts[1]),
              o \in Orders(DOMAIN graph'.symbol_index) :
             \E rs \in {search(graph', name, Len(graph'.nodes), o)} :
                /\ Len(rs) = 1
                /\ rs[1].code = SnippetOf(last_op'.exts[1], name)]_vars

\* C7 (amended): after remove_file(p) and a re-ingest of p with new contents
\* the live nodes of p are exactly the symbols and imports of the latest
\* ingest, stats() counts one File node for p and only the new symbols, and
\* search for a name the new contents define once, with a limit that does not
\* cut the matches, returns exactly one result located in p, carrying the new
\* snippet; its other results are the live symbols of that name in other files.
C7_RebuildLeavesNoDuplicates ==
    [][last_op'.op = "rebuild_file" =>
        /\ HoldsLatestOnly(graph, graph', last_op'.exts[1])
        /\ \A name \in NamesDefinedOnce(last_op'.exts[1]),
              o \in Orders(DOMAIN graph'.symbol_index) :
             \E rs \in {search(graph', name, Len(graph'.nodes), o)} :
                /\ \E i \in 1..Len(rs) :
                    /\ rs[i].file = last_op'.path
                    /\ rs[i].code = SnippetOf(last_op'.exts[1], name)
                    /\ \A j \in 1..Len(rs) : rs[j].file = last_op'.path => j = i
                /\ Len(rs) = 1 + Cardinality({k \in LiveSymbolsElsewhere(graph, last_op'.path) :
                                                graph.nodes[k].name = name})]_vars

\* C7 witness: rebuild_file has replaced the contents of a file by different
\* ones while another file defines a name of the new contents
C7_Witness ==
    /\ last_op.op = "rebuild_file"
    /\ PreviousFileNode(graph, last_op.path) # 0
    /\ PreviousPayloads(graph, last_op.path) # ExtractionPayloads(last_op.exts[1])
    /\ PreviousPayloads(graph, last_op.path) # << >>
    /\ \E name \in NamesDefinedOnce(last_op.exts[1]) :
        \E k \in LiveSymbolsElsewhere(graph, last_op.path) : graph.nodes[k].name = name


\* the handles symbol_index lists under name for nodes outside file path
HandlesElsewhere(g, name, path) ==
    SelectSeq(GetOr(g.symbol_index, name, << >>), LAMBDA idx : g.nodes[idx].file_path # path)

\* the qualified_index entries of the files other than path
QualifiedElsewhere(g, path) ==
    [key \in {k \in DOMAIN g.qualified_index : k[1] # path} |-> g.qualified_index[key]]

\* h differs from g by nothing outside file path, and by no stored node or edge
\* other than removed flags of nodes of path
SameOutside(g, h, path) ==
    /\ Len(h.nodes) = Len(g.nodes)
    /\ h.edges = g.edges
    /\ \A i \in 1..Len(g.nodes) :
        /\ Payload(h.nodes[i]) = Payload(g.nodes[i])
        /\ g.nodes[i].file_path # path => h.nodes[i] = g.nodes[i]
    /\ Del(h.file_index, path) = Del(g.file_index, path)
    /\ \A name \in DOMAIN g.symbol_index \cup DOMAIN h.symbol_index :
        HandlesElsewhere(h, name, path) = HandlesElsewhere(g, name, path)
    /\ QualifiedElsewhere(h, path) = QualifiedElsewhere(g, path)

C9_ReaderSeesNoIntermediateState ==
    /\ [](rpc = "call_tool" =>
            /\ ~wlock
            /\ wpc = "idle"
            /\ IndexesLive(graph)
            /\ IndexesWithinStore(graph))
    /\ [][rpc = "call_tool" => graph' = graph]_vars

\* C9 witness: the handler runs a query after a rebuild_file has replaced a
\* file's nodes
C9_Witness ==
    /\ rpc = "call_tool"
    /\ last_op.op = "rebuild_file"
    /\ \E i \in 1..Len(graph.nodes) : graph.nodes[i].removed
    /\ LiveNodes(graph) # {}

\* C10 (as stated): during a single-file rebuild the file is never read while
\* the writer lock is held: whenever rebuild_file is at fs::read_to_string, no
\* write guard is alive.
C10_NoIoUnderWriteLock ==
    wpc = "io" => ~wlock


----------------------------------------------------------------------------
(* A project built by builder::build_graph and then queried.  The parallel  *)
(* workers of build_graph deliver the extractions in any order; search_graph *)
(* is followed through the iterations of its BFS loop.                      *)

Slack == 1           \* how far below and above a limit of search_graph the project sizes go
MaxOrderedKeys == 3  \* up to this many keys, every iteration order of a HashMap is taken

NFup == <<"F">>
NC == <<"c">>
NP == <<"p">>

\* a: fn f, struct F, and a method f of F (a second f in the same file)
XA == FileExtractions(PA,
          <<ExtractedSymbol(NF, "Function", 1, 1, V1, None),
            ExtractedSymbol(NFup, "Struct", 2, 4, V1, None),
            ExtractedSymbol(NF, "Method", 3, 3, V2, Some(NFup))>>,
          << >>, << >>)

\* d/b: fn f and fn g; g calls f twice and itself, f calls g
XB == FileExtractions(PB,
          <<ExtractedSymbol(NF, "Function", 1, 1, V2, None),
            ExtractedSymbol(NG, "Function", 2, 2, V1, None)>>,
          << >>,
          <<ExtractedCall(NF, NG, 2), ExtractedCall(NF, NG, 2),
            ExtractedCall(NG, NG, 2), ExtractedCall(NG, NF, 1)>>)

\* a: fn fg, fn gf and struct Fg: no symbol is named f or g
XS == FileExtractions(PA,
          <<ExtractedSymbol(<<"g", "f">>, "Function", 1, 1, V1, None),
            ExtractedSymbol(<<"f", "g">>, "Function", 2, 2, V1, None),
            ExtractedSymbol(<<"F", "g">>, "Struct", 3, 3, V2, None)>>,
          << >>, << >>)

Digit == <<"0", "1", "2", "3", "4", "5", "6", "7", "8", "9">>

\* the decimal digits of i, three of them
Digits(i) == <<Digit[((i \div 100) % 10) + 1], Digit[((i \div 10) % 10) + 1], Digit[(i % 10) + 1]>>

\* one file with fn f and n functions c001 .. that each call f
Hub(n) ==
    <<FileExtractions(PA,
        <<ExtractedSymbol(NF, "Function", 0, 0, V1, None)>> \o
            [i \in 1..n |-> ExtractedSymbol(NC \o Digits(i), "Function", i, i, V1, None)],
        << >>,
        [i \in 1..n |-> ExtractedCall(NF, NC \o Digits(i), i)])>>

\* n files p001 .. that each define a fn f
Wide(n) ==
    [i \in 1..n |-> FileExtractions(NP \o Digits(i),
                        <<ExtractedSymbol(NF, "Function", 1, 1, V1, None)>>, << >>, << >>)]

\* the sizes just below, at and just above a limit
Around(limit) == (limit - Slack)..(limit + Slack)

\* the projects: the source files found under the root, as their extractions
Projects ==
    {<<XA>>, <<XB>>, <<XA, XB>>, <<XS>>, <<XS, XB>>}
        \cup {Wide(n) : n \in Around(MAX_INITIAL_MATCHES)}
        \cup {Hub(n) : n \in Around(MAX_SYMBOLS) \cup Around(MAX_CONNECTIONS)}

\* the elements of a finite set of integers in ascending order
Ascending(S) ==
    [i \in 1..Cardinality(S) |->
        CHOOSE x \in S : Cardinality({y \in S : y <= x}) = i]

\* the orders in which the extractions of a project reach build_from_extractions:
\* every order for a short list, else the order of the walk and its reverse
DeliveryOrders(project) ==
    IF Len(project) <= MaxOrderedKeys
    THEN {[i \in 1..Len(project) |-> project[o[i]]] : o \in Orders(1..Len(project))}
    ELSE {project, Reverse(project)}

\* the orders in which file_index.iter() yields its keys: every order for a
\* small map, else the order of insertion and its reverse
FileOrders(g) ==
    IF Cardinality(DOMAIN g.file_index) <= MaxOrderedKeys
    THEN Orders(DOMAIN g.file_index)
    ELSE LET asc == Ascending({g.file_index[p] : p \in DOMAIN g.file_index})
             byHandle == [i \in 1..Len(asc) |-> g.nodes[asc[i]].file_path]
         IN  {byHandle, Reverse(byHandle)}

\* the orders in which symbol_index.iter() yields its keys, likewise
SymbolOrders(g) ==
    IF Cardinality(DOMAIN g.symbol_index) <= MaxOrderedKeys
    THEN Orders(DOMAIN g.symbol_index)
    ELSE LET asc == Ascending({g.symbol_index[n][1] : n \in DOMAIN g.symbol_index})
             byHandle == [i \in 1..Len(asc) |-> g.nodes[asc[i]].name]
         IN  {byHandle, Reverse(byHandle)}

SgQueries == {<< >>, NF, NFup, NC, PA, NP}
SgDepths == {0, 1, 2}

\* build_graph(root): CodeGraph::new(), then build_from_extractions of what the
\* workers pushed
BuildGraph ==
    /\ graph = new
    /\ last_op.op = "new"
    /\ \E project \in Projects :
        \E extractions \in DeliveryOrders(project) :
            /\ graph' = build_from_extractions(new, extractions)
            /\ last_op' = Op("build_graph", << >>, extractions)
    /\ UNCHANGED Threads

\* graph.remove_file(path), between two queries
Q_RemoveFile ==
    /\ sg.pc = "idle"
    /\ RemoveFile


\* the test at the top of the BFS loop body that leaves the loop
BfsBreaks(st) ==
    Len(st.symbols) >= MAX_SYMBOLS /\ Len(st.connections) >= MAX_CONNECTIONS

\* an iteration of the BFS loop as it would be without the test of
\* current_depth against depth
BfsVisit_any_depth(g, depth, st) ==
    LET idx == Head(st.queue).idx
        current_depth == Head(st.queue).depth
        popped == [st EXCEPT !.queue = Tail(@)]
        pushed == IF g.nodes[idx].kind # "File" /\ Len(popped.symbols) < MAX_SYMBOLS
                  THEN [popped EXCEPT !.symbols = Append(@, idx)]
                  ELSE popped
    IN  IF Len(pushed.connections) < MAX_CONNECTIONS
        THEN Expand(g, Expand(g, pushed, idx, current_depth + 1, "Outgoing"),
                    idx, current_depth + 1, "Incoming")
        ELSE pushed

\* one iteration of the BFS loop that does not leave it: the head of the queue
\* is popped, recorded as a symbol and expanded
BfsVisit(g, depth, st) ==
    LET idx == Head(st.queue).idx
        current_depth == Head(st.queue).depth
        popped == [st EXCEPT !.queue = Tail(@)]
        pushed == IF g.nodes[idx].kind # "File" /\ Len(popped.symbols) < MAX_SYMBOLS
                  THEN [popped EXCEPT !.symbols = Append(@, idx)]
                  ELSE popped
    IN  IF current_depth < depth /\ Len(pushed.connections) < MAX_CONNECTIONS
        THEN Expand(g, Expand(g, pushed, idx, current_depth + 1, "Outgoing"),
                    idx, current_depth + 1, "Incoming")
        ELSE pushed

\* visited and queue as they are before the BFS loop is entered
BfsStart(symbol_matches) ==
    [visited |-> Range(symbol_matches),
     queue |-> MapSeq(LAMBDA idx : [idx |-> idx, depth |-> 0], symbol_matches),
     symbols |-> << >>, connections |-> << >>]

\* the result of symbol mode, from the locals the BFS loop leaves
SymbolModeResult(st) ==
    [match_type |-> "symbol", matched_files |-> << >>,
     symbols |-> st.symbols, connections |-> st.connections,
     truncated |-> \/ Len(st.symbols) >= MAX_SYMBOLS
                   \/ Len(st.connections) >= MAX_CONNECTIONS]

\* search_graph(query, depth) is called; file mode and an empty match return at
\* once, symbol mode enters the BFS loop with the seeds queued
SG_Call ==
    /\ sg.pc = "idle"
    /\ \E query \in SgQueries, depth \in SgDepths,
          file_order \in FileOrders(graph), iter_order \in SymbolOrders(graph) :
        \E file_matches \in {FileMatches(graph, query, file_order)},
           symbol_matches \in {SymbolMatches(graph, query, iter_order)} :
            sg' = IF file_matches # << >> \/ symbol_matches = << >>
                  THEN [pc |-> "done", query |-> query, depth |-> depth,
                        seeds |-> << >>, st |-> BfsStart(<< >>),
                        result |-> search_graph_handles(graph, query, depth,
                                                        file_order, iter_order)]
                  ELSE [pc |-> "bfs", query |-> query, depth |-> depth,
                        seeds |-> symbol_matches, st |-> BfsStart(symbol_matches),
                        result |-> SymbolModeResult(BfsStart(<< >>))]
    /\ UNCHANGED <<graph, last_op, wlock, rlock, wpc, wjob, rpc, srv>>

\* an iteration of `while let Some((idx, current_depth)) = queue.pop_front()`
SG_Visit ==
    /\ sg.pc = "bfs"
    /\ sg.st.queue # << >>
    /\ ~BfsBreaks(sg.st)
    /\ sg' = [sg EXCEPT !.st = BfsVisit(graph, sg.depth, sg.st)]
    /\ UNCHANGED <<graph, last_op, wlock, rlock, wpc, wjob, rpc, srv>>

\* the iteration that pops a node and breaks: both limits are reached
SG_Break ==
    /\ sg.pc = "bfs"
    /\ sg.st.queue # << >>
    /\ BfsBreaks(sg.st)
    /\ sg' = [sg EXCEPT !.st.queue = Tail(@), !.pc = "done",
                        !.result = SymbolModeResult(sg.st)]
    /\ UNCHANGED <<graph, last_op, wlock, rlock, wpc, wjob, rpc, srv>>

\* pop_front() returns None: the loop ends
SG_Finish ==
    /\ sg.pc = "bfs"
    /\ sg.st.queue = << >>
    /\ sg' = [sg EXCEPT !.pc = "done", !.result = SymbolModeResult(sg.st)]
    /\ UNCHANGED <<graph, last_op, wlock, rlock, wpc, wjob, rpc, srv>>

\* the GraphSearchResult is returned to the caller
SG_Return ==
    /\ sg.pc = "done"
    /\ sg' = [pc |-> "idle"]
    /\ UNCHANGED <<graph, last_op, wlock, rlock, wpc, wjob, rpc, srv>>

NextQuery ==
    \/ BuildGraph
    \/ Q_RemoveFile
    \/ SG_Call
    \/ SG_Visit
    \/ SG_Break
    \/ SG_Finish
    \/ SG_Return

SpecQuery == Init /\ [][NextQuery]_vars

----------------------------------------------------------------------------
(* Properties of the queries *)

\* a query in lower case and the same query in upper case
CaseQueries == {NF, NFup}

\* the nodes a list of search results is about
ResultNodes(rs) == {rs[i].node : i \in 1..Len(rs)}

\* C11 (as stated): search is case-insensitive: on every graph and for every
\* limit, two queries that differ only in letter case return the same set of
\* symbols.
C11_SearchCaseInsensitive ==
    \A iter_order \in SymbolOrders(graph), limit \in {1, Len(graph.nodes)} :
        \A q1 \in CaseQueries, q2 \in CaseQueries :
            to_lowercase(q1) = to_lowercase(q2) =>
                ResultNodes(search_handles(graph, q1, limit, iter_order)) =
                    ResultNodes(search_handles(graph, q2, limit, iter_order))

\* C12 (as stated): search with the empty string as query returns an empty
\* list, on every graph and for every limit.
C12_EmptyQueryReturnsNothing ==
    \A iter_order \in SymbolOrders(graph), limit \in {1, Len(graph.nodes)} :
        search(graph, << >>, limit, iter_order) = << >>


\* C13: whatever the project, the query and the depth, search_graph queues at
\* most 10 seed matches (reports at most 10 matched_files in file mode, whose
\* symbols all lie in those files), and at no point of the call holds more
\* than 50 symbols or more than 100 connections.
C13_SearchGraphLimits ==
    sg.pc # "idle" =>
        /\ Len(sg.seeds) <= MAX_INITIAL_MATCHES
        /\ Len(sg.st.symbols) <= MAX_SYMBOLS
        /\ Len(sg.st.connections) <= MAX_CONNECTIONS
        /\ Len(sg.result.matched_files) <= MAX_INITIAL_MATCHES
        /\ Len(sg.result.symbols) <= MAX_SYMBOLS
        /\ Len(sg.result.connections) <= MAX_CONNECTIONS
        /\ sg.result.match_type = "file" =>
             \A idx \in Range(sg.result.symbols) :
                 graph.nodes[idx].file_path \in Range(sg.result.matched_files)

\* C13 witness: a call has returned 50 symbols and 100 connections from a graph
\* that holds more live neighbours of the seed than that
C13_Witness ==
    /\ sg.pc = "done"
    /\ Len(sg.result.symbols) = MAX_SYMBOLS
    /\ Len(sg.result.connections) = MAX_CONNECTIONS
    /\ Cardinality({e \in Range(graph.edges) :
                      e.target \in Range(sg.seeds) /\ e.kind = "Calls"}) > MAX_CONNECTIONS


\* the paths of the live files that file mode matches for query
MatchingFiles(g, query) ==
    {path \in DOMAIN g.file_index :
        /\ is_live(g, g.file_index[path])
        /\ \/ contains(to_lowercase(path), to_lowercase(query))
           \/ contains(to_lowercase(file_name(path)), to_lowercase(query))}

\* the live symbols that symbol mode matches for query
MatchingSymbols(g, query) ==
    {idx \in LiveNodes(g) :
        /\ g.nodes[idx].name \in DOMAIN g.symbol_index
        /\ idx \in Range(g.symbol_index[g.nodes[idx].name])
        /\ starts_with(to_lowercase(g.nodes[idx].name), to_lowercase(query))}

\* C14 (as stated): search_graph reports truncated = true whenever one of its
\* hard limits was hit: more files or more symbols matched than the 10 it takes
\* as seeds, or the result holds 50 symbols, or it holds 100 connections.
C14_TruncatedWhenLimitHit ==
    sg.pc = "done" =>
        /\ (sg.result.match_type = "file"
            /\ Cardinality(MatchingFiles(graph, sg.query)) > MAX_INITIAL_MATCHES)
              => sg.result.truncated
        /\ (sg.result.match_type = "symbol"
            /\ Cardinality(MatchingSymbols(graph, sg.query)) > MAX_INITIAL_MATCHES)
              => sg.result.truncated
        /\ Len(sg.result.symbols) >= MAX_SYMBOLS => sg.result.truncated
        /\ Len(sg.result.connections) >= MAX_CONNECTIONS => sg.result.truncated


\* the nodes of the entries of a BFS queue, in queue order
QueueNodes(queue) == [i \in 1..Len(queue) |-> queue[i].idx]

\* no node occurs twice in the sequence
Distinct(s) == \A i \in 1..Len(s), j \in 1..Len(s) : s[i] = s[j] => i = j

\* the entries the iteration from queue to later pushed behind the ones left
Pushed(queue, later) == SubSeq(later, Len(queue), Len(later))

\* the names asked of dependents and dependencies
RelationNames == {NF, NFup, NG, NC}

\* the live nodes named name, as symbol_index lists them
LiveNamed(g, name) ==
    {idx \in Range(GetOr(g.symbol_index, name, << >>)) : is_live(g, idx)}

\* dependents(name) and dependencies(name) report, at most once per stored
\* edge, only nodes that an edge joins to a live node named name
OneHop(g, name) ==
    \E named \in {LiveNamed(g, name)} :
        \E into \in {{e \in Range(g.edges) : e.target \in named}},
           outof \in {{e \in Range(g.edges) : e.source \in named}} :
            /\ Len(dependents_handles(g, name)) <= Len(g.edges)
            /\ Len(dependencies_handles(g, name)) <= Len(g.edges)
            /\ {d.node : d \in Range(dependents_handles(g, name))}
                   \subseteq {e.source : e \in into}
            /\ {d.node : d \in Range(dependencies_handles(g, name))}
                   \subseteq {e.target : e \in outof}

\* the nodes still to be handled by the BFS loop: those queued and the live
\* nodes never queued
BfsMeasure(g, st) == Len(st.queue) + Cardinality(LiveNodes(g) \ st.visited)

\* C15: on every graph, those with call cycles, self-loops and parallel edges
\* included, the BFS of search_graph queues every node at most once (the seeds
\* are distinct, an iteration pushes only live nodes never queued before, each
\* once) and ends: every iteration of the loop lowers by one the number of
\* nodes queued or never queued, and the loop is left when the queue is empty;
\* dependents and dependencies report only nodes joined by one edge to a live
\* node of the name asked for, at most one per stored edge.
C15_QueriesTerminate ==
    /\ [](sg.pc = "bfs" =>
            /\ Distinct(QueueNodes(sg.st.queue))
            /\ Range(QueueNodes(sg.st.queue)) \subseteq sg.st.visited
            /\ Range(sg.seeds) \subseteq sg.st.visited
            /\ sg.st.visited \subseteq LiveNodes(graph)
            /\ sg.st.queue = << >> => ENABLED SG_Finish)
    /\ [][(sg.pc = "bfs" /\ sg'.pc = "bfs") =>
            /\ Distinct(QueueNodes(Pushed(sg.st.queue, sg'.st.queue)))
            /\ Range(QueueNodes(Pushed(sg.st.queue, sg'.st.queue))) \cap sg.st.visited = {}
            /\ sg'.st.visited =
                   sg.st.visited \cup Range(QueueNodes(Pushed(sg.st.queue, sg'.st.queue)))
            /\ BfsMeasure(graph', sg'.st) = BfsMeasure(graph, sg.st) - 1]_vars
    /\ [][sg.pc = "bfs" => sg'.pc \in {"bfs", "done"}]_vars
    /\ [](sg.pc = "idle" => \A name \in RelationNames : OneHop(graph, name))

\* C15 witness: a search_graph call of depth 2 has returned on a graph with a
\* call cycle between two functions, a self-call and two parallel Calls edges,
\* and reports both functions of the cycle
C15_Witness ==
    /\ sg.pc = "done"
    /\ sg.depth = 2
    /\ sg.result.match_type = "symbol"
    /\ \E a \in Range(sg.result.symbols), b \in Range(sg.result.symbols) :
        /\ a # b
        /\ Len(SelectSeq(graph.edges,
                 LAMBDA e : e.source = a /\ e.target = b /\ e.kind = "Calls")) = 2
        /\ \E e \in Range(graph.edges) : e.source = b /\ e.target = a /\ e.kind = "Calls"
        /\ \E e \in Range(graph.edges) : e.source = a /\ e.target = a


\* the names and paths asked of find_qualified, dependents and dependencies
\* when two graphs are compared
BuildNames == {NF, NFup, NG}

\* g and h are the same graph up to the handles: the same live nodes and the
\* same edges between them, by payload, kind and multiplicity, and the same
\* answers from find_qualified, dependents and dependencies
SameLogicalGraph(g, h) ==
    /\ LiveNodePayloads(g) = LiveNodePayloads(h)
    /\ LiveEdgePayloads(g) = LiveEdgePayloads(h)
    /\ \A name \in BuildNames :
        /\ \A path \in Paths : find_qualified(g, path, name) = find_qualified(h, path, name)
        /\ BagOf(dependents(g, name)) = BagOf(dependents(h, name))
        /\ BagOf(dependencies(g, name)) = BagOf(dependencies(h, name))

\* C16 (as stated): build_graph produces the same logical graph in whatever
\* order its workers deliver the extractions: the graph built from the list as
\* delivered equals, up to the handles, the graph built from the same
\* extractions in any other order.
C16_BuildOrderInsensitive ==
    [][(last_op.op = "new" /\ last_op'.op = "build_graph") =>
        \A other \in DeliveryOrders(last_op'.exts) :
            SameLogicalGraph(graph', build_from_extractions(new, other))]_vars


\* the symbols stored for (file_path, name), in the order they were added
SymbolsAddedFor(g, file_path, name) ==
    {i \in 1..Len(g.nodes) : /\ g.nodes[i].kind # "File"
                             /\ g.nodes[i].file_path = file_path
                             /\ g.nodes[i].name = name}

\* C17 (as stated): first-writer-wins.  Every qualified_index entry
\* (file, name) refers to the first symbol added with that file and name, and
\* find_qualified returns that symbol whenever it returns one.
C17_QualifiedFirstWriterWins ==
    \A key \in DOMAIN graph.qualified_index :
        \A i \in SymbolsAddedFor(graph, key[1], key[2]) :
            /\ graph.qualified_index[key] <= i
            /\ find_qualified_handle(graph, key[1], key[2]) = <<i>>
                   => \A j \in SymbolsAddedFor(graph, key[1], key[2]) : i <= j

\* the names asked of find_qualified
QualifiedNames == {NF, NFup, NG, NH, NM}

\* the live symbols stored with this file_path and name
LiveSymbolsFor(g, file_path, name) ==
    {i \in SymbolsAddedFor(g, file_path, name) : ~g.nodes[i].removed}

\* C18: find_qualified(path, name) returns a node only if the node is live
\* and has exactly that file_path and name, and nothing when no live node has
\* them; when live symbols of one name are defined in two different files the
\* two qualified lookups return two distinct live nodes, and search(name),
\* with a limit that does not cut the name's list, returns both.
C18_FindQualified ==
    /\ \A path \in Paths \cup {PC}, name \in QualifiedNames :
        /\ \A idx \in Range(find_qualified_handle(graph, path, name)) :
            /\ idx \in LiveSymbolsFor(graph, path, name)
            /\ find_qualified(graph, path, name) = <<graph.nodes[idx]>>
        /\ LiveSymbolsFor(graph, path, name) = {}
               => find_qualified(graph, path, name) = << >>
    /\ \A name \in QualifiedNames, p \in Paths, q \in Paths :
        (/\ p # q
         /\ LiveSymbolsFor(graph, p, name) # {}
         /\ LiveSymbolsFor(graph, q, name) # {})
        => /\ find_qualified_handle(graph, p, name) # << >>
           /\ find_qualified_handle(graph, q, name) # << >>
           /\ find_qualified_handle(graph, p, name) # find_qualified_handle(graph, q, name)
           /\ \A iter_order \in Orders(DOMAIN graph.symbol_index),
                 limit \in {Len(graph.symbol_index[name]), 10} :
                  Range(find_qualified_handle(graph, p, name))
                      \cup Range(find_qualified_handle(graph, q, name))
                  \subseteq ResultNodes(search_handles(graph, name, limit, iter_order))

\* C18 witness: f is live in both files after one of them was rebuilt, the two
\* lookups return different nodes, and a removed symbol of the rebuilt file is
\* still stored under a key that find_qualified answers with nothing
C18_Witness ==
    /\ last_op.op = "rebuild_file"
    /\ find_qualified_handle(graph, PA, NF) # << >>
    /\ find_qualified_handle(graph, PB, NF) # << >>
    /\ find_qualified_handle(graph, PA, NF) # find_qualified_handle(graph, PB, NF)
    /\ \E i \in 1..Len(graph.nodes) :
        /\ graph.nodes[i].removed
        /\ graph.nodes[i].kind # "File"
        /\ find_qualified(graph, graph.nodes[i].file_path, graph.nodes[i].name) = << >>

\* add_file on a path that has a live File node returns a handle of such a
\* node and leaves the graph as it was
AddFileIdempotent(g) ==
    \A path \in Paths :
        LiveFileNodes(g, path) # {}
            => /\ add_file(g, path).g = g
               /\ add_file(g, path).idx \in LiveFileNodes(g, path)
               /\ add_file(add_file(g, path).g, path) = add_file(g, path)

\* at most one live File node per path, and every live File node is the
\* target of its path's file_index entry
LiveFilesIndexed(g) ==
    \A path \in Paths :
        /\ Cardinality(LiveFileNodes(g, path)) <= 1
        /\ \A i \in LiveFileNodes(g, path) :
               path \in DOMAIN g.file_index /\ g.file_index[path] = i

\* every file_index entry maps its path to a File node with that file_path
FileIndexToFiles(g) ==
    \A path \in DOMAIN g.file_index :
        /\ g.file_index[path] \in 1..Len(g.nodes)
        /\ g.nodes[g.file_index[path]].kind = "File"
        /\ g.nodes[g.file_index[path]].file_path = path

\* C19 (as stated): add_file is idempotent on a path with a live File node,
\* and in every reachable state there is at most one live File node per path,
\* every live File node is its path's file_index entry, and every file_index
\* entry maps its path to a live File node with that file_path.
C19_Original ==
    /\ AddFileIdempotent(graph)
    /\ LiveFilesIndexed(graph)
    /\ FileIndexToFiles(graph)
    /\ \A path \in DOMAIN graph.file_index : is_live(graph, graph.file_index[path])


\* no edge leaves a File node for another File node: what holds of every graph
\* whose edges were added by build_from_extractions
FileEdgesReachSymbols(g) ==
    \A e \in Range(g.edges) :
        g.nodes[e.source].kind = "File" => g.nodes[e.target].kind # "File"

\* C19 (amended): add_file is idempotent on a path with a live File node; in
\* every reachable state there is at most one live File node per path, every
\* live File node is its path's file_index entry, and every file_index entry
\* maps its path to a File node with that file_path, on which add_file returns
\* the entry's handle, adds no node and leaves the node live.  The node of an
\* entry is live whenever no edge joins two File nodes; remove_file of a file
\* with an edge to another File node soft-deletes that node and keeps its
\* entry, and add_file then clears the flag.
C19_AddFileIdempotent ==
    /\ AddFileIdempotent(graph)
    /\ LiveFilesIndexed(graph)
    /\ FileIndexToFiles(graph)
    /\ \A path \in DOMAIN graph.file_index :
        /\ add_file(graph, path).idx = graph.file_index[path]
        /\ add_file(graph, path).g =
               [graph EXCEPT !.nodes[graph.file_index[path]].removed = FALSE]
        /\ FileEdgesReachSymbols(graph) => is_live(graph, graph.file_index[path])

\* C19 witness: add_file has just been called for a path that had a File node:
\* the node of the path is not the last one stored
C19_Witness ==
    /\ last_op.op = "add_file"
    /\ graph.file_index[last_op.path] < Len(graph.nodes)
    /\ is_live(graph, graph.file_index[last_op.path])


\* the live nodes of g that h stores as removed, File nodes or not
MarkedRemoved(g, h, files) ==
    {i \in LiveNodes(g) : /\ h.nodes[i].removed
                          /\ (g.nodes[i].kind = "File") = files}

\* the stored edges that touch a removed node
EdgesAtRemoved(g) ==
    {i \in 1..Len(g.edges) : \/ g.nodes[g.edges[i].source].removed
                             \/ g.nodes[g.edges[i].target].removed}

\* the stored edges that repeat an earlier edge between the same two nodes
ParallelEdges(g) ==
    {i \in 1..Len(g.edges) : \E j \in 1..(i - 1) :
        /\ g.edges[j].source = g.edges[i].source
        /\ g.edges[j].target = g.edges[i].target}

\* C20: stats().total_edges is the number of stored edges, parallel edges and
\* edges that touch removed nodes included, and total_nodes is file_count +
\* symbol_count, in every state; a remove_file call leaves total_edges as it
\* was and lowers file_count and symbol_count by exactly the number of live
\* File nodes and live symbols it marked removed.
C20_StatsCounts ==
    /\ [](/\ stats(graph).total_edges = Cardinality(DOMAIN graph.edges)
          /\ stats(graph).total_nodes = stats(graph).file_count + stats(graph).symbol_count
          /\ stats(graph).total_nodes = Cardinality(LiveNodes(graph)))
    /\ [][(last_op'.op = "remove_file" /\ sg'.pc = "idle" /\ sg.pc = "idle") =>
            /\ stats(graph').total_edges = stats(graph).total_edges
            /\ stats(graph').file_count =
                   stats(graph).file_count - Cardinality(MarkedRemoved(graph, graph', TRUE))
            /\ stats(graph').symbol_count =
                   stats(graph).symbol_count - Cardinality(MarkedRemoved(graph, graph', FALSE))
            /\ LiveNodes(graph') \subseteq LiveNodes(graph)]_vars

\* C20 witness: remove_file has soft-deleted a file whose symbols are the
\* source of two parallel edges to a symbol that lives on: stats still counts
\* every stored edge, which is more than the edges between live nodes
C20_Witness ==
    /\ last_op.op = "remove_file"
    /\ sg.pc = "idle"
    /\ ParallelEdges(graph) \cap EdgesAtRemoved(graph) # {}
    /\ \E i \in EdgesAtRemoved(graph) : ~graph.nodes[graph.edges[i].target].removed
    /\ stats(graph).total_edges = Len(graph.edges)
    /\ stats(graph).total_nodes > 0
    /\ stats(graph).total_nodes < Len(graph.nodes)

----------------------------------------------------------------------------
(* The name indexes *)

\* C21: in every reachable state each handle in symbol_index[name] designates a
\* stored node whose name is name, and each entry qualified_index[(path, name)]
\* designates a stored node whose file_path is path and whose name is name.
C21_IndexKeysMatchNodes ==
    /\ \A name \in DOMAIN graph.symbol_index :
        \A k \in 1..Len(graph.symbol_index[name]) :
            /\ graph.symbol_index[name][k] \in 1..Len(graph.nodes)
            /\ graph.nodes[graph.symbol_index[name][k]].name = name
    /\ \A key \in DOMAIN graph.qualified_index :
        /\ graph.qualified_index[key] \in 1..Len(graph.nodes)
        /\ graph.nodes[graph.qualified_index[key]].file_path = key[1]
        /\ graph.nodes[graph.qualified_index[key]].name = key[2]

\* C21 witness: remove_file has purged the indexes of a removed symbol while
\* another symbol is still indexed by name and by (path, name)
C21_Witness ==
    /\ last_op.op = "remove_file"
    /\ \E i \in 1..Len(graph.nodes) : graph.nodes[i].removed /\ graph.nodes[i].kind # "File"
    /\ DOMAIN graph.symbol_index # {}
    /\ DOMAIN graph.qualified_index # {}

----------------------------------------------------------------------------
(* mcp/types.rs, mcp/tools.rs, mcp/server.rs: the JSON-RPC server.  A       *)
(* serde_json::Value is a record: its type tag t, its text s (string and    *)
(* number), its members or items o (object and array).                      *)

JNull == [t |-> "null", s |-> "", o |-> << >>]
JBool(b) == [t |-> "bool", s |-> IF b THEN "true" ELSE "false", o |-> << >>]
JNum(digits) == [t |-> "number", s |-> digits, o |-> << >>]
JStr(text) == [t |-> "string", s |-> text, o |-> << >>]
Member(k, v) == [k |-> k, v |-> v]
JArr(items) == [t |-> "array", s |-> "", o |-> [i \in 1..Len(items) |-> Member("", items[i])]]
JObj(members) == [t |-> "object", s |-> "", o |-> members]

\* Value::get(key): the member of an object, None for anything else
get(value, key) ==
    IF value.t = "object" /\ \E i \in 1..Len(value.o) : value.o[i].k = key
    THEN Some(value.o[CHOOSE i \in 1..Len(value.o) :
                        /\ value.o[i].k = key
                        /\ \A j \in (i + 1)..Len(value.o) : value.o[j].k # key].v)
    ELSE None

\* Value::as_str
as_str(value) == IF value.t = "string" THEN Some(value.s) ELSE None

\* Option::and_then(|v| v.as_str())
and_then_as_str(opt) == IF opt = None THEN None ELSE as_str(opt[1])

\* #[derive(Deserialize)] of Option<Value>: an absent member and null are None
OptionValue(opt) == IF opt = None \/ opt = Some(JNull) THEN None ELSE opt

\* #[serde(default)] of Value: an absent member is Value::Null
DefaultValue(opt) == IF opt = None THEN JNull ELSE opt[1]

\* a line of standard input: form says whether its bytes are UTF-8 and what
\* the text is (empty, white space only, text that is not JSON, or the JSON
\* document doc)
Line(form, doc) == [form |-> form, doc |-> doc]

\* str::trim().is_empty()
trimmed_is_empty(line) == line.form \in {"empty", "spaces"}

\* serde_json::from_str::<JsonRpcRequest>: << >> for Err, else <<request>>
from_str_JsonRpcRequest(line) ==
    IF /\ line.form = "json"
       /\ line.doc.t = "object"
       /\ and_then_as_str(get(line.doc, "jsonrpc")) # None
       /\ and_then_as_str(get(line.doc, "method")) # None
    THEN <<[jsonrpc |-> get(line.doc, "jsonrpc")[1].s,
            id |-> OptionValue(get(line.doc, "id")),
            method |-> get(line.doc, "method")[1].s,
            params |-> DefaultValue(get(line.doc, "params"))]>>
    ELSE << >>

\* from_value::<ToolsCallParams> as it would be with #[serde(default)] on name
from_value_ToolsCallParams_default_name(params) ==
    IF params.t = "object"
    THEN <<[name |-> IF and_then_as_str(get(params, "name")) = None THEN ""
                     ELSE get(params, "name")[1].s,
            arguments |-> DefaultValue(get(params, "arguments"))]>>
    ELSE << >>

\* serde_json::from_value::<ToolsCallParams>: << >> for Err, else <<params>>
from_value_ToolsCallParams(params) ==
    IF params.t = "object" /\ and_then_as_str(get(params, "name")) # None
    THEN <<[name |-> get(params, "name")[1].s,
            arguments |-> DefaultValue(get(params, "arguments"))]>>
    ELSE << >>

\* JsonRpcResponse::success and JsonRpcResponse::error
success(id, result) == [jsonrpc |-> "2.0", id |-> id, result |-> Some(result), error |-> None]
error(id, code, message) ==
    [jsonrpc |-> "2.0", id |-> id, result |-> None,
     error |-> Some([code |-> code, message |-> message])]

\* serde_json::to_string(response): members that are None are skipped
to_string(response) ==
    JObj(<<Member("jsonrpc", JStr(response.jsonrpc))>>
         \o (IF response.id = None THEN << >> ELSE <<Member("id", response.id[1])>>)
         \o (IF response.result = None THEN << >>
             ELSE <<Member("result", response.result[1])>>)
         \o (IF response.error = None THEN << >>
             ELSE <<Member("error",
                           JObj(<<Member("code", JNum(response.error[1].code)),
                                  Member("message", JStr(response.error[1].message))>>))>>))

\* ToolsCallResult::text and ToolsCallResult::error
ToolsCallResult_text(text) ==
    [content |-> <<[content_type |-> "text", text |-> text]>>, is_error |-> None]
ToolsCallResult_error(message) ==
    [content |-> <<[content_type |-> "text", text |-> message]>>, is_error |-> Some(TRUE)]

\* to_value(ToolsCallResult) as it would be without skip_serializing_if
to_value_ToolsCallResult_always_flag(result) ==
    JObj(<<Member("content",
                  JArr([i \in 1..Len(result.content) |->
                          JObj(<<Member("type", JStr(result.content[i].content_type)),
                                 Member("text", JStr(result.content[i].text))>>)])),
           Member("isError", IF result.is_error = None THEN JNull
                             ELSE JBool(result.is_error[1]))>>)

\* serde_json::to_value(ToolsCallResult): isError is skipped when None
to_value_ToolsCallResult(result) ==
    JObj(<<Member("content",
                  JArr([i \in 1..Len(result.content) |->
                          JObj(<<Member("type", JStr(result.content[i].content_type)),
                                 Member("text", JStr(result.content[i].text))>>)]))>>
         \o (IF result.is_error = None THEN << >>
             ELSE <<Member("isError", JBool(result.is_error[1]))>>))


\* tools.rs: the text of a handler that ran its query.  The query facade
\* (crate::query) serialises its response; the text stands for that JSON
tool_text(g, name) == name

\* handle_search, handle_dependencies, handle_file_symbols: the required
\* argument must be present and a string
handle_with_argument(g, name, args, required) ==
    IF and_then_as_str(get(args, required)) = None
    THEN ToolsCallResult_error("Missing required parameter")
    ELSE ToolsCallResult_text(tool_text(g, name))

\* tools::call_tool.  It borrows the graph immutably and returns the result
call_tool(g, name, arguments) ==
    CASE name = "anchor_search" -> handle_with_argument(g, name, arguments, "query")
      [] name = "anchor_dependencies" -> handle_with_argument(g, name, arguments, "symbol")
      [] name = "anchor_stats" -> ToolsCallResult_text(tool_text(g, name))
      [] name = "anchor_file_symbols" -> handle_with_argument(g, name, arguments, "file")
      [] OTHER -> ToolsCallResult_error("Unknown tool")

\* the result values of initialize, tools/list and ping
InitializeResult == JObj(<<Member("protocolVersion", JStr("2024-11-05"))>>)
ToolsListResult ==
    JObj(<<Member("tools", JArr(<<JStr("anchor_search"), JStr("anchor_dependencies"),
                                  JStr("anchor_stats"), JStr("anchor_file_symbols")>>))>>)
EmptyObject == JObj(<< >>)

\* the JSON-RPC error codes of server.rs
PARSE_ERROR == "-32700"
METHOD_NOT_FOUND == "-32601"
INVALID_PARAMS == "-32602"
INTERNAL_ERROR == "-32603"

\* handle_request with every method answered by "Method not found" but tools/call
handle_request_tools_only(g, read_err, request) ==
    IF request.method = "tools/call"
    THEN IF from_value_ToolsCallParams(request.params) = << >>
         THEN Some(error(request.id, INVALID_PARAMS, "Invalid params"))
         ELSE IF read_err
         THEN Some(error(request.id, INTERNAL_ERROR, "Graph lock error"))
         ELSE Some(success(request.id,
                     to_value_ToolsCallResult(
                         call_tool(g, from_value_ToolsCallParams(request.params)[1].name,
                                   from_value_ToolsCallParams(request.params)[1].arguments))))
    ELSE Some(error(request.id, METHOD_NOT_FOUND, "Method not found"))

\* server::handle_request: None for a notification, else Some(response);
\* read_err says whether graph.read() returns Err (the lock is poisoned)
handle_request(g, read_err, request) ==
    CASE request.method = "initialize" -> Some(success(request.id, InitializeResult))
      [] request.method = "notifications/initialized" -> None
      [] request.method = "tools/list" -> Some(success(request.id, ToolsListResult))
      [] request.method = "tools/call" ->
            IF from_value_ToolsCallParams(request.params) = << >>
            THEN Some(error(request.id, INVALID_PARAMS, "Invalid params"))
            ELSE IF read_err
            THEN Some(error(request.id, INTERNAL_ERROR, "Graph lock error"))
            ELSE Some(success(request.id,
                        to_value_ToolsCallResult(
                            call_tool(g, from_value_ToolsCallParams(request.params)[1].name,
                                      from_value_ToolsCallParams(request.params)[1].arguments))))
      [] request.method = "ping" -> Some(success(request.id, EmptyObject))
      [] OTHER -> Some(error(request.id, METHOD_NOT_FOUND, "Method not found"))

\* whether handle_request reaches graph.read()
needs_graph(request) ==
    request.method = "tools/call" /\ from_value_ToolsCallParams(request.params) # << >>

\* what one iteration of the loop of run writes for a line it has read and
\* found not empty: << >> or one serialised response
responses_for(g, read_err, line) ==
    IF from_str_JsonRpcRequest(line) = << >>
    THEN <<to_string(error(None, PARSE_ERROR, "Parse error"))>>
    ELSE IF handle_request(g, read_err, from_str_JsonRpcRequest(line)[1]) = None
    THEN << >>
    ELSE <<to_string(handle_request(g, read_err, from_str_JsonRpcRequest(line)[1])[1])>>


----------------------------------------------------------------------------
(* bin/mcp.rs and bin/cli.rs: the two processes.  anchor-mcp loads or       *)
(* builds the graph, starts the watcher, runs the loop of server::run until *)
(* standard input ends and saves the graph; anchor (a query command) loads  *)
(* or builds the graph and prints its answer.                               *)

MaxLines == 2        \* lines the client writes to standard input before closing it

\* a line holding a JSON object with these members
Req(members) == Line("json", JObj(members))

V20 == Member("jsonrpc", JStr("2.0"))
Id(digits) == Member("id", JNum(digits))
Method(name) == Member("method", JStr(name))
Call(members) == Member("params", JObj(members))
Tool(name) == Member("name", JStr(name))
Args(members) == Member("arguments", JObj(members))

\* the lines the client may send
RpcLines ==
    { Line("empty", JNull),
      Line("spaces", JNull),
      Line("malformed", JNull),
      Req(<<V20, Id("1")>>),
      Req(<<V20, Id("1"), Method("initialize")>>),
      Req(<<V20, Method("notifications/initialized")>>),
      Req(<<V20, Id("2"), Method("notifications/initialized")>>),
      Req(<<V20, Method("ping")>>),
      Req(<<V20, Member("id", JNull), Method("ping")>>),
      Req(<<V20, Member("id", JStr("x")), Method("tools/list")>>),
      Req(<<V20, Id("3"), Method("resources/list")>>),
      Req(<<V20, Id("4"), Method("tools/call"), Call(<<Args(<< >>)>>)>>),
      Req(<<V20, Id("6"), Method("tools/call"), Call(<<Tool("anchor_stats")>>)>>),
      Req(<<V20, Id("7"), Method("tools/call"), Call(<<Tool("anchor_write")>>)>>),
      Req(<<V20, Id("8"), Method("tools/call"),
            Call(<<Tool("anchor_search"), Args(<< >>)>>)>>),
      Req(<<V20, Id("9"), Method("tools/call"),
            Call(<<Tool("anchor_search"), Args(<<Member("query", JStr("f"))>>)>>)>>),
      Req(<<V20, Id("10"), Method("tools/call"),
            Call(<<Tool("anchor_file_symbols"), Args(<<Member("file", JNum("5"))>>)>>)>>) }

\* the project on disk, and the graph the cache file holds when it is intact:
\* the project as it was before a.rs was added
Project == <<XA, XB>>
CachedGraph == build_from_extractions(new, <<XB>>)

\* the cache file: absent, intact, or failing to load (schema version
\* mismatch or corrupt contents)
CacheStates == {"absent", "good", "bad"}

\* CodeGraph::load: the outcomes it can have on a cache file that exists; an
\* intact file can still fail with an I/O error
load_outcomes(cache) == IF cache = "good" THEN {"Ok", "Err"} ELSE {"Err"}

\* CodeGraph::save: the cache file after an attempt that succeeded or failed
save_outcomes(cache) == {"good", cache}

\* the process starts: which binary, and what the cache file is
Start ==
    /\ srv.pc = "start"
    /\ \E bin \in {"mcp", "cli"}, cache \in CacheStates :
        srv' = [pc |-> "load", bin |-> bin, cache |-> cache, watching |-> FALSE,
                poisoned |-> FALSE, lines |-> << >>, out |-> << >>, request |-> None,
                ended |-> "", saves |-> 0, rebuilt |-> FALSE]
    /\ UNCHANGED <<graph, last_op, wlock, rlock, wpc, wjob, rpc, sg>>

\* mcp.rs load_or_build, the cache file exists: CodeGraph::load
Mcp_Load ==
    /\ srv.pc = "load" /\ srv.bin = "mcp" /\ srv.cache # "absent"
    /\ \E outcome \in load_outcomes(srv.cache) :
        IF outcome = "Ok"
        THEN /\ graph' = CachedGraph
             /\ last_op' = Op("load", << >>, << >>)
             /\ srv' = [srv EXCEPT !.pc = "watch"]
        ELSE /\ srv' = [srv EXCEPT !.pc = "build"]
             /\ UNCHANGED <<graph, last_op>>
    /\ UNCHANGED <<wlock, rlock, wpc, wjob, rpc, sg>>

\* mcp.rs load_or_build, no cache or a failed load: build_graph, then a save
\* whose failure is logged
Mcp_Build ==
    /\ srv.pc \in {"load", "build"}
    /\ srv.bin = "mcp"
    /\ srv.pc = "build" \/ srv.cache = "absent"
    /\ graph' = build_from_extractions(new, Project)
    /\ last_op' = Op("build_graph", << >>, Project)
    /\ \E cache \in save_outcomes(srv.cache) :
        srv' = [srv EXCEPT !.pc = "watch", !.cache = cache, !.rebuilt = TRUE]
    /\ UNCHANGED <<wlock, rlock, wpc, wjob, rpc, sg>>

\* mcp.rs: watcher::start_watching succeeds or fails; either way run is called
Mcp_StartWatching ==
    /\ srv.pc = "watch"
    /\ \E watching \in BOOLEAN : srv' = [srv EXCEPT !.pc = "serve", !.watching = watching]
    /\ UNCHANGED <<graph, last_op, wlock, rlock, wpc, wjob, rpc, sg>>


\* write_response: one line appended to standard output
write_all(out, responses) == out \o responses

\* server::run, one iteration for a line that was read: an empty line is
\* skipped, a line that does not parse is answered with the parse error, a
\* request that does not need the graph is answered, and a tools/call with
\* well-formed params goes on to graph.read()
Srv_Line ==
    /\ srv.pc = "serve"
    /\ Len(srv.lines) < MaxLines
    /\ \E line \in RpcLines :
        \E parsed \in {from_str_JsonRpcRequest(line)} :
            srv' = IF trimmed_is_empty(line)
                   THEN [srv EXCEPT !.lines = Append(@, line)]
                   ELSE IF parsed # << >> /\ needs_graph(parsed[1])
                   THEN [srv EXCEPT !.lines = Append(@, line), !.pc = "graph_read",
                                    !.request = Some(parsed[1])]
                   ELSE [srv EXCEPT !.lines = Append(@, line),
                                    !.out = write_all(@, responses_for(graph, FALSE, line))]
    /\ UNCHANGED <<graph, last_op, wlock, rlock, wpc, wjob, rpc, sg>>

\* handle_request, tools/call: graph.read() waits for the writer to drop its
\* guard; on a poisoned lock it returns Err, which is answered at once
Srv_GraphRead ==
    /\ srv.pc = "graph_read"
    /\ read_available(wlock)
    /\ IF srv.poisoned
       THEN /\ srv' = [srv EXCEPT !.pc = "serve", !.request = None,
                         !.out = write_all(@, <<to_string(
                                     handle_request(graph, TRUE, srv.request[1])[1])>>)]
            /\ UNCHANGED rlock
       ELSE /\ srv' = [srv EXCEPT !.pc = "call_tool"]
            /\ rlock' = rlock + 1
    /\ UNCHANGED <<graph, last_op, wlock, wpc, wjob, rpc, sg>>

\* handle_request, tools/call: call_tool under the read guard; the guard is
\* dropped on return and run writes the response
Srv_CallTool ==
    /\ srv.pc = "call_tool"
    /\ srv' = [srv EXCEPT !.pc = "serve", !.request = None,
                 !.out = write_all(@, <<to_string(
                             handle_request(graph, FALSE, srv.request[1])[1])>>)]
    /\ rlock' = rlock - 1
    /\ UNCHANGED <<graph, last_op, wlock, wpc, wjob, rpc, sg>>

\* server::run: lines() is exhausted (end of file): the loop ends
Srv_Eof ==
    /\ srv.pc = "serve"
    /\ srv' = [srv EXCEPT !.pc = "returned", !.ended = "eof"]
    /\ UNCHANGED <<graph, last_op, wlock, rlock, wpc, wjob, rpc, sg>>

\* server::run: lines() yields Err (a line that is not UTF-8, or a failed
\* read): break
Srv_ReadError ==
    /\ srv.pc = "serve"
    /\ Len(srv.lines) < MaxLines
    /\ srv' = [srv EXCEPT !.pc = "returned", !.ended = "read_error",
                          !.lines = Append(@, Line("invalid_utf8", JNull))]
    /\ UNCHANGED <<graph, last_op, wlock, rlock, wpc, wjob, rpc, sg>>

\* mcp.rs main, after run, as it would be if the graph were read without the
\* lock: no waiting for the writer to drop its guard
Main_GraphRead_unguarded ==
    /\ srv.pc = "returned"
    /\ srv' = [srv EXCEPT !.pc = "save"]
    /\ rlock' = rlock + 1
    /\ UNCHANGED <<graph, last_op, wlock, wpc, wjob, rpc, sg>>

\* mcp.rs main, after run: graph.read(); when the lock is poisoned the save is
\* skipped
Main_GraphRead ==
    /\ srv.pc = "returned"
    /\ read_available(wlock)
    /\ IF srv.poisoned
       THEN /\ srv' = [srv EXCEPT !.pc = "exit"]
            /\ UNCHANGED rlock
       ELSE /\ srv' = [srv EXCEPT !.pc = "save"]
            /\ rlock' = rlock + 1
    /\ UNCHANGED <<graph, last_op, wlock, wpc, wjob, rpc, sg>>

\* mcp.rs main: g.save(&cache_path) under the read guard, its failure logged
Main_Save ==
    /\ srv.pc = "save"
    /\ \E cache \in save_outcomes(srv.cache) :
        srv' = [srv EXCEPT !.pc = "exit", !.cache = cache, !.saves = @ + 1]
    /\ rlock' = rlock - 1
    /\ UNCHANGED <<graph, last_op, wlock, wpc, wjob, rpc, sg>>

\* cli.rs run, a query command, the cache file exists: CodeGraph::load(..)?
Cli_Load ==
    /\ srv.pc = "load" /\ srv.bin = "cli" /\ srv.cache # "absent"
    /\ \E outcome \in load_outcomes(srv.cache) :
        IF outcome = "Ok"
        THEN /\ graph' = CachedGraph
             /\ last_op' = Op("load", << >>, << >>)
             /\ srv' = [srv EXCEPT !.pc = "command"]
        ELSE /\ srv' = [srv EXCEPT !.pc = "failed"]
             /\ UNCHANGED <<graph, last_op>>
    /\ UNCHANGED <<wlock, rlock, wpc, wjob, rpc, sg>>

\* cli.rs run, a query command, no cache file: build_graph, create_dir_all(..)?
\* and save(..)?
Cli_Build ==
    /\ srv.pc = "load" /\ srv.bin = "cli" /\ srv.cache = "absent"
    /\ graph' = build_from_extractions(new, Project)
    /\ last_op' = Op("build_graph", << >>, Project)
    /\ \E cache \in save_outcomes(srv.cache) :
        srv' = [srv EXCEPT !.pc = IF cache = "good" THEN "command" ELSE "failed",
                           !.cache = cache, !.rebuilt = TRUE]
    /\ UNCHANGED <<wlock, rlock, wpc, wjob, rpc, sg>>

\* cli.rs run: the command prints its answer and the process exits
Cli_Command ==
    /\ srv.pc = "command"
    /\ srv' = [srv EXCEPT !.pc = "exit"]
    /\ UNCHANGED <<graph, last_op, wlock, rlock, wpc, wjob, rpc, sg>>

\* the watcher thread, once started, handles the deletion of the file a
Srv_Watcher ==
    /\ srv.pc \in {"serve", "graph_read", "call_tool", "returned", "save"}
    /\ srv.watching
    /\ \/ W_Lock /\ wjob' = Op("remove_file", PA, << >>) /\ last_op.op # "remove_file"
       \/ W_RemoveFile
       \/ W_Unlock

\* the watcher thread panics while it holds the write guard: the guard is
\* dropped by the unwinding and the RwLock is left poisoned
Srv_WatcherPanic ==
    /\ srv.pc \in {"serve", "graph_read", "call_tool", "returned", "save"}
    /\ wpc \in {"locked", "done"}
    /\ wlock' = FALSE
    /\ wpc' = "dead"
    /\ srv' = [srv EXCEPT !.poisoned = TRUE]
    /\ UNCHANGED <<graph, last_op, rlock, wjob, rpc, sg>>

NextServer ==
    \/ Start
    \/ Mcp_Load
    \/ Mcp_Build
    \/ Mcp_StartWatching
    \/ Srv_Line
    \/ Srv_GraphRead
    \/ Srv_CallTool
    \/ Srv_Eof
    \/ Srv_ReadError
    \/ Main_GraphRead
    \/ Main_Save
    \/ Cli_Load
    \/ Cli_Build
    \/ Cli_Command
    \/ Srv_Watcher
    \/ Srv_WatcherPanic

SpecServer == Init /\ [][NextServer]_vars


----------------------------------------------------------------------------
(* Properties of the JSON-RPC server *)

\* the positions of anchor-mcp from the first iteration of run onwards
LoopPcs == {"serve", "graph_read", "call_tool", "returned", "save", "exit"}

\* the server is in or past the loop of run
InOrPastLoop == srv.pc \in LoopPcs /\ srv.bin = "mcp"

\* a line, as sent, holds a well-formed request: a JSON object with a string
\* jsonrpc member and a string method member
WellFormed(line) ==
    /\ line.form = "json"
    /\ line.doc.t = "object"
    /\ \E i \in 1..Len(line.doc.o) : line.doc.o[i].k = "jsonrpc" /\ line.doc.o[i].v.t = "string"
    /\ \E i \in 1..Len(line.doc.o) : line.doc.o[i].k = "method" /\ line.doc.o[i].v.t = "string"

\* the method of a well-formed line
WireMethod(line) ==
    line.doc.o[CHOOSE i \in 1..Len(line.doc.o) : line.doc.o[i].k = "method"].v.s

\* the id a line carries: its id member unless that is null
WireId(line) ==
    IF \E i \in 1..Len(line.doc.o) : line.doc.o[i].k = "id" /\ line.doc.o[i].v.t # "null"
    THEN Some(line.doc.o[CHOOSE i \in 1..Len(line.doc.o) : line.doc.o[i].k = "id"].v)
    ELSE None

Blank(line) == line.form \in {"empty", "spaces"}

\* the lines the loop has finished with: all that were read, but the one
\* whose tools/call is still in progress
LinesDone ==
    IF srv.pc \in {"graph_read", "call_tool"}
    THEN SubSeq(srv.lines, 1, Len(srv.lines) - 1)
    ELSE srv.lines

\* the lines that are owed a response line: neither blank nor unreadable nor
\* a notifications/initialized request
Owed(ls) ==
    SelectSeq(ls, LAMBDA l : /\ ~Blank(l)
                             /\ l.form # "invalid_utf8"
                             /\ ~(WellFormed(l) /\ WireMethod(l) = "notifications/initialized"))

\* C22: request/response pairing.  At every point of the loop the response
\* lines written so far are, one for one and in the order read, those owed to
\* the lines the loop has finished with: exactly one for every well-formed
\* request whose method is not notifications/initialized, carrying that
\* request's id (no id member when the request has none or a null one) and
\* either a result or an error; none for a blank line and none for
\* notifications/initialized.
C22_RequestResponsePairing ==
    InOrPastLoop =>
        /\ Len(srv.out) = Len(Owed(LinesDone))
        /\ \A i \in 1..Len(srv.out) :
            /\ WellFormed(Owed(LinesDone)[i])
                  => get(srv.out[i], "id") = WireId(Owed(LinesDone)[i])
            /\ (get(srv.out[i], "result") = None) # (get(srv.out[i], "error") = None)

\* C22 witness: the loop has read a notifications/initialized request that
\* carries an id and then the tools/call request 6, and has written one line,
\* the result for id 6
C22_Witness ==
    /\ InOrPastLoop
    /\ srv.pc = "serve"
    /\ Len(srv.lines) = 2
    /\ WellFormed(srv.lines[1])
    /\ WireMethod(srv.lines[1]) = "notifications/initialized"
    /\ WireId(srv.lines[1]) # None
    /\ WireId(srv.lines[2]) = Some(JNum("6"))
    /\ Len(srv.out) = 1
    /\ get(srv.out[1], "id") = Some(JNum("6"))
    /\ get(srv.out[1], "result") # None


\* the methods handle_request has an arm for
KnownMethods == {"initialize", "notifications/initialized", "tools/list", "tools/call", "ping"}

\* the params of a well-formed line, as sent, name a tool: params is an object
\* with a string member name
WireParamsNameTool(line) ==
    \E i \in 1..Len(line.doc.o) :
        /\ line.doc.o[i].k = "params"
        /\ line.doc.o[i].v.t = "object"
        /\ \E j \in 1..Len(line.doc.o[i].v.o) :
            line.doc.o[i].v.o[j].k = "name" /\ line.doc.o[i].v.o[j].v.t = "string"

\* the error code of a response line, "" when it has no error member
ErrorCode(response) ==
    IF get(response, "error") = None THEN ""
    ELSE get(get(response, "error")[1], "code")[1].s

\* this step of the loop writes a response line
WritesResponse == InOrPastLoop /\ Len(srv'.out) = Len(srv.out) + 1

\* the line that the response written by this step answers
AnsweredLine == srv'.lines[Len(srv'.lines)]

\* the response line written by this step
WrittenResponse == srv'.out[Len(srv'.out)]

C24_OnlyEofEndsTheLoop ==
    (InOrPastLoop /\ srv.pc \in {"returned", "save", "exit"}) => srv.ended = "eof"



\* the four tools of list_tools, and the argument each handler requires
ExposedTools == {"anchor_search", "anchor_dependencies", "anchor_stats", "anchor_file_symbols"}
RequiredArgument(tool) ==
    CASE tool = "anchor_search" -> "query"
      [] tool = "anchor_dependencies" -> "symbol"
      [] tool = "anchor_file_symbols" -> "file"
      [] OTHER -> ""

\* a well-formed tools/call line whose params name a tool: the tool it names
\* and the arguments it carries (null when it carries none)
NamesTool(line) ==
    WellFormed(line) /\ WireMethod(line) = "tools/call" /\ WireParamsNameTool(line)
WireTool(line) == get(get(line.doc, "params")[1], "name")[1].s
WireArguments(line) ==
    IF get(get(line.doc, "params")[1], "arguments") = None THEN JNull
    ELSE get(get(line.doc, "params")[1], "arguments")[1]

\* the call names a tool that is not exposed, or omits the required argument
FailingCall(line) ==
    \/ WireTool(line) \notin ExposedTools
    \/ /\ RequiredArgument(WireTool(line)) # ""
       /\ get(WireArguments(line), RequiredArgument(WireTool(line))) = None

\* the call names an exposed tool and carries its required argument as a string
SuccessfulCall(line) ==
    /\ WireTool(line) \in ExposedTools
    /\ RequiredArgument(WireTool(line)) # ""
          => and_then_as_str(get(WireArguments(line), RequiredArgument(WireTool(line)))) # None

\* a response line is a JSON-RPC result whose body holds one text content block
ResultWithOneTextBlock(response) ==
    /\ get(response, "error") = None
    /\ get(response, "result") # None
    /\ get(get(response, "result")[1], "content") # None
    /\ get(get(response, "result")[1], "content")[1].t = "array"
    /\ Len(get(get(response, "result")[1], "content")[1].o) = 1
    /\ get(get(get(response, "result")[1], "content")[1].o[1].v, "type") = Some(JStr("text"))

\* C25 (as stated): a tools/call that names a tool other than the four exposed
\* ones, or omits the required argument of the named tool, is answered with a
\* result whose body has isError = true and one text content block, not with an
\* error object; a successful tool call has no isError member; in both cases
\* the graph is not modified.
C25_Original ==
    [][(WritesResponse /\ NamesTool(AnsweredLine)) =>
        /\ FailingCall(AnsweredLine) =>
              /\ ResultWithOneTextBlock(WrittenResponse)
              /\ get(get(WrittenResponse, "result")[1], "isError") = Some(JBool(TRUE))
        /\ SuccessfulCall(AnsweredLine) =>
              /\ ResultWithOneTextBlock(WrittenResponse)
              /\ get(get(WrittenResponse, "result")[1], "isError") = None
        /\ graph' = graph]_vars

\* C25 (amended): as stated for every tools/call that reaches call_tool, that
\* is, whenever graph.read() succeeds; while the call holds the read guard no
\* thread modifies the graph.  (When the lock is poisoned the call is answered
\* with the error object -32603 and no handler runs.)
C25_ToolErrorsAreResults ==
    [][/\ (WritesResponse /\ NamesTool(AnsweredLine) /\ ~srv.poisoned) =>
            /\ srv.pc = "call_tool"
            /\ FailingCall(AnsweredLine) =>
                  /\ ResultWithOneTextBlock(WrittenResponse)
                  /\ get(get(WrittenResponse, "result")[1], "isError") = Some(JBool(TRUE))
            /\ SuccessfulCall(AnsweredLine) =>
                  /\ ResultWithOneTextBlock(WrittenResponse)
                  /\ get(get(WrittenResponse, "result")[1], "isError") = None
       /\ (InOrPastLoop /\ srv.pc = "call_tool") => graph' = graph]_vars

\* C25 witness: with the watcher running, a call of the unknown tool
\* anchor_write was answered with an isError result and then a call of
\* anchor_search with its query was answered with a result without isError
C25_Witness ==
    /\ InOrPastLoop
    /\ srv.watching
    /\ Len(srv.out) = 2
    /\ WireId(srv.lines[1]) = Some(JNum("7"))
    /\ WireId(srv.lines[2]) = Some(JNum("9"))
    /\ get(srv.out[1], "result") # None
    /\ get(get(srv.out[1], "result")[1], "isError") = Some(JBool(TRUE))
    /\ get(srv.out[2], "result") # None
    /\ get(get(srv.out[2], "result")[1], "isError") = None



\* the save of mcp.rs main is in progress, or this step attempts it
Saving == InOrPastLoop /\ srv.pc = "save"

\* the parts of C26 that concern the order of events: the loop returns on
\* end-of-file; the save is attempted at most once, after run has returned and
\* every response owed to the lines read has been written, and nothing is
\* written afterwards; while it runs the main thread holds a read guard and
\* no write guard is alive
ShutdownOrdering ==
    /\ (srv.pc = "serve" /\ srv'.pc = "returned" /\ srv'.ended = "eof")
          => (srv'.out = srv.out /\ UNCHANGED <<graph, wlock, rlock>>)
    /\ Saving => (rlock >= 1 /\ ~wlock /\ wpc \in {"idle", "dead"})
    /\ (InOrPastLoop /\ srv'.saves # srv.saves) =>
          /\ Saving
          /\ srv.saves = 0 /\ srv'.saves = 1
          /\ srv.ended # ""
          /\ Len(srv.out) = Len(Owed(srv.lines))
          /\ graph' = graph
          /\ rlock' = rlock - 1
    /\ (InOrPastLoop /\ srv.pc \in {"returned", "save", "exit"}) => srv'.out = srv.out

LoadFails == srv.pc = "load" /\ srv.cache # "absent" /\ srv'.pc # "load" /\ last_op'.op # "load"

\* C27 (as stated): whenever loading the cache fails, the caller, server or
\* query command, goes on to build the graph from source instead of failing.
C27_LoadFailureRebuilds ==
    [][LoadFails => (srv'.pc = "build" /\ srv'.pc # "failed")]_vars



----------------------------------------------------------------------------
(* builder::build_graph: the walk collects the supported files, the workers *)
(* of par_iter read and extract one file each and push the extraction onto  *)
(* the Mutex<Vec<FileExtractions>>, and the list is ingested.  The process  *)
(* record srv holds, while build_graph runs, the files, each worker's       *)
(* position and local copy, the mutex and the list.                         *)

MaxFiles == 3        \* supported files the walk of build_graph finds

\* the directories built: the files the walk finds, each as the extraction
\* extract_file returns for it when it can be read and parsed
BuildProjects == {<<XA, XB>>} \cup {Wide(n) : n \in 1..MaxFiles}

\* Mutex::lock granted whether or not another guard is alive
mutex_available_always(holder) == TRUE

\* Mutex::lock can be granted: no guard is alive
mutex_available(holder) == holder = 0

\* a worker has finished with its file
Finished(position) == position \in {"read_failed", "extract_failed", "done"}

\* build_graph: the walk, and Mutex::new(Vec::with_capacity(files.len()))
build_graph_walk ==
    /\ srv.pc = "start"
    /\ \E files \in BuildProjects :
        srv' = [pc |-> "par_iter", files |-> files,
                task |-> [i \in 1..Len(files) |-> "queued"],
                local |-> [i \in 1..Len(files) |-> << >>],
                holder |-> 0, extractions |-> << >>]
    /\ UNCHANGED <<graph, last_op, wlock, rlock, wpc, wjob, rpc, sg>>

\* the closure of for_each: fs::read_to_string(file_path) is Ok or Err
worker_read_to_string ==
    /\ srv.pc = "par_iter"
    /\ \E i \in 1..Len(srv.files), result \in {"source", "read_failed"} :
        /\ srv.task[i] = "queued"
        /\ srv' = [srv EXCEPT !.task[i] = result]
    /\ UNCHANGED <<graph, last_op, wlock, rlock, wpc, wjob, rpc, sg>>

\* the closure of for_each: extract_file(file_path, &source) is Ok or Err
worker_extract_file ==
    /\ srv.pc = "par_iter"
    /\ \E i \in 1..Len(srv.files), result \in {"extraction", "extract_failed"} :
        /\ srv.task[i] = "source"
        /\ srv' = [srv EXCEPT !.task[i] = result]
    /\ UNCHANGED <<graph, last_op, wlock, rlock, wpc, wjob, rpc, sg>>

\* the closure of for_each: extractions.lock() blocks until the guard is free
worker_lock ==
    /\ srv.pc = "par_iter"
    /\ \E i \in 1..Len(srv.files) :
        /\ srv.task[i] = "extraction"
        /\ mutex_available(srv.holder)
        /\ srv' = [srv EXCEPT !.task[i] = "locked", !.holder = i]
    /\ UNCHANGED <<graph, last_op, wlock, rlock, wpc, wjob, rpc, sg>>

\* exts.push(extraction), first half: the Vec is read
worker_push_load ==
    /\ srv.pc = "par_iter"
    /\ \E i \in 1..Len(srv.files) :
        /\ srv.task[i] = "locked"
        /\ srv' = [srv EXCEPT !.task[i] = "pushing", !.local[i] = srv.extractions]
    /\ UNCHANGED <<graph, last_op, wlock, rlock, wpc, wjob, rpc, sg>>

\* exts.push(extraction), second half: the element and the length are stored
worker_push_store ==
    /\ srv.pc = "par_iter"
    /\ \E i \in 1..Len(srv.files) :
        /\ srv.task[i] = "pushing"
        /\ srv' = [srv EXCEPT !.task[i] = "pushed",
                              !.extractions = Append(srv.local[i], srv.files[i])]
    /\ UNCHANGED <<graph, last_op, wlock, rlock, wpc, wjob, rpc, sg>>

\* the guard is dropped at the end of the if-let
worker_drop_guard ==
    /\ srv.pc = "par_iter"
    /\ \E i \in 1..Len(srv.files) :
        /\ srv.task[i] = "pushed"
        /\ srv' = [srv EXCEPT !.task[i] = "done", !.holder = 0]
    /\ UNCHANGED <<graph, last_op, wlock, rlock, wpc, wjob, rpc, sg>>

\* build_graph, after for_each has joined its workers: into_inner() and
\* CodeGraph::new().build_from_extractions(extractions)
build_graph_ingest ==
    /\ srv.pc = "par_iter"
    /\ \A i \in 1..Len(srv.files) : Finished(srv.task[i])
    /\ graph' = build_from_extractions(new, srv.extractions)
    /\ last_op' = Op("build_graph", << >>, srv.extractions)
    /\ srv' = [srv EXCEPT !.pc = "built"]
    /\ UNCHANGED <<wlock, rlock, wpc, wjob, rpc, sg>>

NextBuild ==
    \/ build_graph_walk
    \/ worker_read_to_string
    \/ worker_extract_file
    \/ worker_lock
    \/ worker_push_load
    \/ worker_push_store
    \/ worker_drop_guard
    \/ build_graph_ingest

SpecBuild == Init /\ [][NextBuild]_vars

\* the files whose worker has pushed its extraction
PushedFiles == {i \in 1..Len(srv.files) : srv.task[i] \in {"pushed", "done"}}

\* the records of the shared list that are the extraction of file i
RecordsOf(i) == {k \in 1..Len(srv.extractions) : srv.extractions[k] = srv.files[i]}

\* C28: build_graph is lossy per file but never aborts.  While the workers
\* run, the shared list holds exactly one record for every file whose push is
\* complete and nothing else, and some worker can always take a step until
\* all have finished; the graph built holds exactly one live File node for
\* every file that was read and extracted and none for a file that failed,
\* whatever the interleaving of the workers.
C28_BuildLossyPerFile ==
    /\ srv.pc \in {"par_iter", "built"} =>
          /\ Len(srv.extractions) = Cardinality(PushedFiles)
          /\ \A i \in 1..Len(srv.files) :
                Cardinality(RecordsOf(i)) = IF i \in PushedFiles THEN 1 ELSE 0
    /\ srv.pc = "par_iter" => ENABLED NextBuild
    /\ srv.pc = "built" =>
          /\ \A i \in 1..Len(srv.files) :
                /\ Finished(srv.task[i])
                /\ Cardinality(LiveFileNodes(graph, srv.files[i].file_path))
                      = IF srv.task[i] = "done" THEN 1 ELSE 0
          /\ Cardinality({n \in LiveNodes(graph) : graph.nodes[n].kind = "File"})
                = Cardinality({i \in 1..Len(srv.files) : srv.task[i] = "done"})

\* C28 witness: of three files one could not be read and one could not be
\* parsed; the workers of the third and of no other pushed, and the graph was
\* built with its one File node
C28_Witness ==
    /\ srv.pc = "built"
    /\ Len(srv.files) = 3
    /\ \E i, j, k \in 1..3 :
        /\ srv.task[i] = "read_failed"
        /\ srv.task[j] = "extract_failed"
        /\ srv.task[k] = "done"
    /\ Len(graph.nodes) > 0



----------------------------------------------------------------------------
(* Properties of search and of the symbol mode of search_graph *)

\* the queries put to search: names that some project defines, and fragments
\* that are the beginning of some names and lie inside others
SearchQueries == {NF, NG, NFup, <<"f", "g">>, NC, <<"0">>}

\* the live nodes that are not File nodes
LiveSymbols(g) == {i \in LiveNodes(g) : g.nodes[i].kind # "File"}

\* the live symbols named exactly query, and those whose name contains it or
\* starts with it when letter case is ignored
NamedExactly(g, query) == {i \in LiveSymbols(g) : g.nodes[i].name = query}
NameContains(g, query) ==
    {i \in LiveSymbols(g) : contains(to_lowercase(g.nodes[i].name), to_lowercase(query))}
NameStartsWith(g, query) ==
    {i \in LiveSymbols(g) : starts_with(to_lowercase(g.nodes[i].name), to_lowercase(query))}

\* rs lists distinct nodes of the set from, as many as the limit allows
TakenFrom(rs, from, limit) ==
    /\ Cardinality(ResultNodes(rs)) = Len(rs)
    /\ ResultNodes(rs) \subseteq from
    /\ Len(rs) = IF limit < Cardinality(from) THEN limit ELSE Cardinality(from)

\* C29: search prefers exact matches exclusively.  When some live symbol is
\* named exactly as the query, the result holds only symbols of that name, as
\* many as the limit allows; otherwise it holds symbols whose name contains the
\* query, as many as the limit allows, those whose name starts with it before
\* the others, so that none of the former is cut while one of the latter is
\* kept; a File node is never returned.  (Checked on every graph between two
\* calls of search_graph, which does not change the graph.)
C29_SearchPrefersExact ==
    sg.pc = "idle" => \A query \in SearchQueries :
        \A exact \in {NamedExactly(graph, query)},
           containing \in {NameContains(graph, query)},
           starting \in {NameStartsWith(graph, query)} :
            \A iter_order \in SymbolOrders(graph), limit \in {1, 2, Len(graph.nodes)} :
                \A rs \in {search_handles(graph, query, limit, iter_order)} :
                    /\ \A k \in 1..Len(rs) : graph.nodes[rs[k].node].kind # "File"
                    /\ exact # {} => TakenFrom(rs, exact, limit)
                    /\ exact = {} =>
                          /\ TakenFrom(rs, containing, limit)
                          /\ \A k \in 2..Len(rs) :
                                rs[k].node \in starting => rs[k - 1].node \in starting
                          /\ ResultNodes(rs) \subseteq starting
                                \/ starting \subseteq ResultNodes(rs)

\* C29 witness: in the project of fg, gf, Fg, f and g the file of f and g has
\* been removed; symbol_index.iter() yields gf first, and the search for f
\* with limit 2 returns the two symbols whose name starts with f and cuts gf
C29_Witness ==
    /\ last_op.op = "remove_file"
    /\ NamedExactly(graph, NF) = {}
    /\ Cardinality(NameStartsWith(graph, NF)) = 2
    /\ Cardinality(NameContains(graph, NF)) = 3
    /\ \E iter_order \in SymbolOrders(graph) :
        /\ graph.nodes[FuzzyScored(graph, NF, iter_order)[1].idx].name = <<"g", "f">>
        /\ ResultNodes(search_handles(graph, NF, 2, iter_order)) = NameStartsWith(graph, NF)



\* the live nodes that one edge, taken in either direction, joins to a node
\* of the set from
Neighbours(g, from) ==
    {g.edges[k].target : k \in {j \in 1..Len(g.edges) : g.edges[j].source \in from}}
        \cup {g.edges[k].source : k \in {j \in 1..Len(g.edges) : g.edges[j].target \in from}}

\* the live nodes reachable from the set from through at most depth edges,
\* taken in either direction, through live nodes only
RECURSIVE Within(_, _, _)
Within(g, from, depth) ==
    IF depth = 0 THEN from \cap LiveNodes(g)
    ELSE UNION {near \cup (Neighbours(g, near) \cap LiveNodes(g)) :
                    near \in {Within(g, from, depth - 1)}}


\* a call of search_graph is in its symbol mode: in the BFS loop, or done with
\* a result of match_type "symbol"
InSymbolMode == sg.pc = "bfs" \/ (sg.pc = "done" /\ sg.result.match_type = "symbol")

\* the symbols the call has recorded so far, and those of its result
SymbolsSoFar == IF sg.pc = "bfs" THEN sg.st.symbols ELSE sg.result.symbols

\* C30: search_graph in symbol mode is a depth-bounded BFS.  The seeds are
\* live symbols whose name starts with the query (letter case ignored), at
\* most MAX_INITIAL_MATCHES of them; at every point of the call each symbol
\* recorded is a live node that is not a File node and lies within depth edges
\* of a seed, edges taken in either direction through live nodes only, and no
\* node is recorded twice; with depth = 0 the result holds exactly the seeds
\* and no connections.
C30_SymbolModeIsBoundedBfs ==
    InSymbolMode =>
        \A reach \in {Within(graph, Range(sg.seeds), sg.depth)},
           symbols \in {SymbolsSoFar} :
            /\ sg.seeds # << >>
            /\ Len(sg.seeds) <= MAX_INITIAL_MATCHES
            /\ Range(sg.seeds) \subseteq NameStartsWith(graph, sg.query)
            /\ Range(symbols) \subseteq reach \cap LiveSymbols(graph)
            /\ Cardinality(Range(symbols)) = Len(symbols)
            /\ (sg.depth = 0 /\ sg.pc = "done") =>
                  /\ sg.result.symbols = sg.seeds
                  /\ sg.result.connections = << >>

\* C30 witness: a call with depth 1 has returned symbols that are not seeds,
\* found across an edge, while a live symbol two edges away from the seeds is
\* not in the result
C30_Witness ==
    /\ sg.pc = "done"
    /\ sg.result.match_type = "symbol"
    /\ sg.depth = 1
    /\ Range(sg.result.symbols) \ Range(sg.seeds) # {}
    /\ sg.result.connections # << >>
    /\ (Within(graph, Range(sg.seeds), 2) \cap LiveSymbols(graph))
           \ Within(graph, Range(sg.seeds), 1) # {}



\* C31 (as stated): no connection held by a search_graph call or returned by
\* it, in file mode or in symbol mode and for every depth, has a File node as
\* its from or its to endpoint.
C31_NoFileEndpoint ==
    sg.pc \in {"bfs", "done"} =>
        \A c \in Range(sg.st.connections) \cup Range(sg.result.connections) :
            graph.nodes[c.from].kind # "File" /\ graph.nodes[c.to].kind # "File"



\* C32 (as stated): search_graph in file mode with depth > 0 records the
\* one-hop neighbourhood of the matched files' symbols: unless the limit of
\* 100 connections is reached, for every symbol S of a matched file and every
\* stored edge between S and a live node N that is not a File node, in either
\* direction, the result holds a connection with the edge's endpoints and
\* kind, also when N is itself a symbol of a matched file.
C32_FileModeNeighbourhood ==
    (/\ sg.pc = "done"
     /\ sg.result.match_type = "file"
     /\ sg.depth > 0
     /\ Len(sg.result.connections) < MAX_CONNECTIONS) =>
        \A e \in Range(graph.edges) :
            (/\ {e.source, e.target} \cap Range(sg.result.symbols) # {}
             /\ {e.source, e.target} \subseteq LiveSymbols(graph))
                => \E c \in Range(sg.result.connections) :
                       c.from = e.source /\ c.to = e.target /\ c.relationship = e.kind



----------------------------------------------------------------------------
(* Properties of dependents and dependencies, and of the life of a node *)

EdgeKinds == {"Defines", "Calls", "Imports", "Contains"}

\* how many entries of a dependents or dependencies list name node with kind
Entries(deps, node, kind) ==
    Len(SelectSeq(deps, LAMBDA d : d.node = node /\ d.relationship = kind))

\* how many stored edges of kind lead from a node of the set from to a node of
\* the set to
EdgesBetween(g, from, to, kind) ==
    Len(SelectSeq(g.edges, LAMBDA e : e.source \in from /\ e.target \in to /\ e.kind = kind))

\* C33: dependents and dependencies are one-hop and mutually inverse on live
\* symbols.  For every name a and every stored node B, dependencies(a) holds as
\* many entries for B with relationship k as there are stored edges of kind k
\* from a live node named a to B when B is live, and none when B is removed;
\* dependents(b) holds, for every stored node A, as many entries as there are
\* such edges from A to a live node named b when A is live, and none when A is
\* removed; so between the live symbols named a and those named b both lists
\* count exactly the same edges.
C33_DependentsInverse ==
    sg.pc = "idle" =>
        \A a \in RelationNames, k \in EdgeKinds :
            \A out \in {dependencies_handles(graph, a)},
               into \in {dependents_handles(graph, a)},
               named \in {LiveNamed(graph, a)} :
                /\ \A n \in 1..Len(graph.nodes) :
                    /\ Entries(out, n, k) =
                          IF is_live(graph, n) THEN EdgesBetween(graph, named, {n}, k) ELSE 0
                    /\ Entries(into, n, k) =
                          IF is_live(graph, n) THEN EdgesBetween(graph, {n}, named, k) ELSE 0
                /\ \A b \in RelationNames :
                    \A others \in {LiveNamed(graph, b)} :
                        FoldSeq(LAMBDA sum, d : IF d.node \in others /\ d.relationship = k
                                                THEN sum + 1 ELSE sum, 0, out)
                          = FoldSeq(LAMBDA sum, d : IF d.node \in named /\ d.relationship = k
                                                    THEN sum + 1 ELSE sum,
                                    0, dependents_handles(graph, b))

\* C33 witness: after a remove_file a live symbol still has a Calls edge to a
\* removed one, and two live symbols are joined by two parallel Calls edges
\* that dependencies of the caller and dependents of the callee both list
C33_Witness ==
    /\ sg.pc = "idle"
    /\ last_op.op = "remove_file"
    /\ \E e \in Range(graph.edges) :
        /\ e.kind = "Calls"
        /\ is_live(graph, e.source)
        /\ ~is_live(graph, e.target)
    /\ \E A \in LiveSymbols(graph), B \in LiveSymbols(graph) :
        /\ A # B
        /\ EdgesBetween(graph, {A}, {B}, "Calls") >= 1
        /\ Entries(dependencies_handles(graph, graph.nodes[A].name), B, "Calls") >= 1
        /\ Entries(dependents_handles(graph, graph.nodes[B].name), A, "Calls") >= 1



\* the removed File nodes of path
DormantFileNodes(g, path) ==
    {i \in 1..Len(g.nodes) :
        g.nodes[i].kind = "File" /\ g.nodes[i].file_path = path /\ g.nodes[i].removed}

----------------------------------------------------------------------------
(* Properties of the phases of build_from_extractions *)

\* the edges a step appends
NewEdges == SubSeq(graph'.edges, Len(graph.edges) + 1, Len(graph'.edges))

\* the phase that adds edges of a kind
PhaseOf(kind) == IF kind \in {"Defines", "Imports"} THEN 1
                 ELSE IF kind = "Calls" THEN 2 ELSE 3

\* the names of the symbols the extractions of a list define
DefinedIn(extractions) ==
    UNION {{symbol.name : symbol \in Range(extraction.symbols)} :
              extraction \in Range(extractions)}

\* C35: phase ordering of a build.  The edges one build_from_extractions call
\* appends are in phase order: every Defines and Imports edge before every
\* Calls edge, every Calls edge before every Contains edge.  A call whose
\* caller is a symbol of its own file and whose callee is defined by any file
\* of the list, earlier or later, gets a Calls edge from the caller's node to
\* a live node named as the callee; when no node of that name was indexed
\* before the call, that node is one the call added.
C35_PhaseOrdering ==
    [][last_op'.op = "build_from_extractions" =>
        /\ Len(graph'.edges) >= Len(graph.edges)
        /\ SubSeq(graph'.edges, 1, Len(graph.edges)) = graph.edges
        /\ \A i, j \in 1..Len(NewEdges) :
               i < j => PhaseOf(NewEdges[i].kind) <= PhaseOf(NewEdges[j].kind)
        /\ \A extraction \in Range(last_op'.exts) :
             \A call \in Range(extraction.calls) :
               (/\ call.caller \in DefinedIn(<<extraction>>)
                /\ call.callee \in DefinedIn(last_op'.exts)) =>
                   \E e \in Range(NewEdges) :
                       /\ e.kind = "Calls"
                       /\ e.source = graph'.qualified_index[<<extraction.file_path, call.caller>>]
                       /\ graph'.nodes[e.target].name = call.callee
                       /\ ~graph'.nodes[e.target].removed
                       /\ call.callee \notin DOMAIN graph.symbol_index
                              => e.target > Len(graph.nodes)]_vars

\* C35 witness: a build whose first file calls a symbol that only its second
\* file defines has added the Calls edge, and a Contains edge after it
C35_Witness ==
    /\ last_op.op = "build_from_extractions"
    /\ Len(last_op.exts) = 2
    /\ \E call \in Range(last_op.exts[1].calls) :
        /\ call.callee \notin DefinedIn(<<last_op.exts[1]>>)
        /\ call.callee \in DefinedIn(<<last_op.exts[2]>>)
        /\ \E i \in 1..Len(graph.edges) :
            /\ graph.edges[i].kind = "Calls"
            /\ graph.nodes[graph.edges[i].source].name = call.caller
            /\ graph.nodes[graph.edges[i].source].file_path = last_op.exts[1].file_path
            /\ graph.nodes[graph.edges[i].target].file_path = last_op.exts[2].file_path
            /\ \E j \in (i + 1)..Len(graph.edges) : graph.edges[j].kind = "Contains"



\* the call records of a list of extractions, each with the path of its file,
\* in the order phase 2 visits them
CallRecords(extractions) ==
    FoldSeq(LAMBDA acc, extraction :
                acc \o [i \in 1..Len(extraction.calls) |->
                           [file |-> extraction.file_path, call |-> extraction.calls[i]]],
            << >>, extractions)

\* a call record both of whose ends the indexes of g know
Resolved(g, record) ==
    /\ <<record.file, record.call.caller>> \in DOMAIN g.qualified_index
    /\ record.call.callee \in DOMAIN g.symbol_index

\* C36: call resolution.  Phases 2 and 3 leave the indexes as phase 1 made
\* them, so the indexes after an ingest are those phase 2 read.  The Calls
\* edges an ingest appends are, in order, one per call record whose
\* (file, caller) is a key of qualified_index and whose callee is a key of
\* symbol_index: from the caller's node to the first handle of
\* symbol_index[callee], which is live.  A record that does not resolve adds
\* no edge, and the ingest completes.
C36_CallResolution ==
    [][last_op'.op \in {"build_from_extractions", "rebuild_file"} =>
        \A resolved \in {SelectSeq(CallRecords(last_op'.exts),
                                   LAMBDA record : Resolved(graph', record))} :
            /\ SelectSeq(NewEdges, LAMBDA e : e.kind = "Calls")
                 = [i \in 1..Len(resolved) |->
                       [source |-> graph'.qualified_index[<<resolved[i].file,
                                                            resolved[i].call.caller>>],
                        target |-> graph'.symbol_index[resolved[i].call.callee][1],
                        kind |-> "Calls"]]
            /\ \A i \in 1..Len(resolved) :
                   is_live(graph', graph'.symbol_index[resolved[i].call.callee][1])]_vars

\* an ingest has completed with a call record that resolved to nothing
UnresolvedCall ==
    /\ last_op.op \in {"build_from_extractions", "rebuild_file"}
    /\ \E record \in Range(CallRecords(last_op.exts)) : ~Resolved(graph, record)

\* C36 witness: an ingest has resolved the same call twice, giving two
\* parallel Calls edges
C36_Witness ==
    /\ last_op.op \in {"build_from_extractions", "rebuild_file"}
    /\ \E i, j \in 1..Len(graph.edges) :
        /\ i < j
        /\ graph.edges[i] = graph.edges[j]
        /\ graph.edges[i].kind = "Calls"
        /\ ~graph.nodes[graph.edges[i].source].removed


----------------------------------------------------------------------------
(* Ingest of extractions whose symbols name a parent the file may not define *)

\* the extraction lists of an ingest: those of a build, and EA3 with them
IngestLists ==
    UNION {[1..n -> Extractions \cup {EA3}] : n \in 1..MaxBuildLen}

\* graph.build_from_extractions(extractions)
Ingest ==
    \E extractions \in IngestLists :
        /\ Len(graph.nodes) + NewSymbols(extractions) <= MaxNodes
        /\ Completes(build_from_extractions(graph, extractions),
                     Op("build_from_extractions", << >>, extractions))
        /\ UNCHANGED Threads

NextIngest ==
    \/ Ingest
    \/ RemoveFile

SpecIngest == Init /\ [][NextIngest]_vars

\* the symbols of a list of extractions that name a parent, each with the
\* path of its file, in the order phase 3 visits them
ParentRecords(extractions) ==
    FoldSeq(LAMBDA acc, extraction :
                acc \o [i \in 1..Len(SelectSeq(extraction.symbols,
                                               LAMBDA symbol : symbol.parent # None)) |->
                           [file |-> extraction.file_path,
                            symbol |-> SelectSeq(extraction.symbols,
                                                 LAMBDA symbol : symbol.parent # None)[i]]],
            << >>, extractions)

\* a parent record both of whose names qualified_index of g knows for the file
ParentResolved(g, record) ==
    /\ <<record.file, record.symbol.parent[1]>> \in DOMAIN g.qualified_index
    /\ <<record.file, record.symbol.name>> \in DOMAIN g.qualified_index

\* C37: edge typing of ingest.  Of the edges one build_from_extractions call
\* appends, a Defines or Imports edge goes from the File node that file_index
\* has for a path of the list to a node that is not a File node and has that
\* file_path, an Imports edge to an Import node; a Contains edge joins two
\* nodes that are not File nodes and have the same file_path; a Calls edge
\* joins two nodes that are not File nodes.  The Contains edges are, in order,
\* one per symbol whose parent name and own name are both keys of
\* qualified_index for its file, and none for a symbol whose parent is not.
C37_EdgeTyping ==
    [][last_op'.op = "build_from_extractions" =>
        /\ \A e \in Range(NewEdges) :
            \A source \in {graph'.nodes[e.source]}, target \in {graph'.nodes[e.target]} :
                /\ target.kind # "File"
                /\ e.kind \in {"Defines", "Imports"} =>
                    /\ source.kind = "File"
                    /\ source.file_path = target.file_path
                    /\ \E extraction \in Range(last_op'.exts) :
                           extraction.file_path = source.file_path
                    /\ graph'.file_index[source.file_path] = e.source
                /\ e.kind = "Imports" => target.kind = "Import"
                /\ e.kind = "Contains" =>
                    source.kind # "File" /\ source.file_path = target.file_path
                /\ e.kind = "Calls" => source.kind # "File"
        /\ \A resolved \in {SelectSeq(ParentRecords(last_op'.exts),
                                      LAMBDA record : ParentResolved(graph', record))} :
            SelectSeq(NewEdges, LAMBDA e : e.kind = "Contains")
              = [i \in 1..Len(resolved) |->
                    [source |-> graph'.qualified_index[<<resolved[i].file,
                                                         resolved[i].symbol.parent[1]>>],
                     target |-> graph'.qualified_index[<<resolved[i].file,
                                                         resolved[i].symbol.name>>],
                     kind |-> "Contains"]]]_vars

\* C37 witness: the graph has edges of all four kinds from ingests, and the
\* last ingest had a symbol whose parent did not resolve and added no
\* Contains edge for it
C37_Witness ==
    /\ last_op.op = "build_from_extractions"
    /\ \A kind \in EdgeKinds : \E e \in Range(graph.edges) : e.kind = kind
    /\ \E record \in Range(ParentRecords(last_op.exts)) :
        /\ ~ParentResolved(graph, record)
        /\ \A e \in Range(graph.edges) :
               e.kind = "Contains" =>
                   graph.nodes[e.target].name # record.symbol.name
                     \/ graph.nodes[e.target].removed



----------------------------------------------------------------------------
(* Properties of the life of a symbol node *)

\* the stored nodes of g that are not File nodes, in handle order
SymbolNodes(g) == SelectSeq(g.nodes, LAMBDA node : node.kind # "File")

\* C38: symbol node lifecycle.  A step other than compact keeps every stored
\* node under its handle; a node that is not a File node keeps its name,
\* kind, file_path, lines and snippet, and stays removed once it is removed.
\* compact stores exactly the live symbol nodes, unchanged and in their order.
C38_SymbolLifecycle ==
    [][IF last_op'.op = "compact"
       THEN SymbolNodes(graph') = SelectSeq(SymbolNodes(graph), LAMBDA node : ~node.removed)
       ELSE /\ Len(graph'.nodes) >= Len(graph.nodes)
            /\ \A i \in 1..Len(graph.nodes) :
                   graph.nodes[i].kind # "File" =>
                       /\ Payload(graph'.nodes[i]) = Payload(graph.nodes[i])
                       /\ graph.nodes[i].removed => graph'.nodes[i].removed]_vars

\* C38 witness: the path of a removed symbol has been added again, and the
\* symbol is still stored, removed, with its snippet
C38_Witness ==
    /\ last_op.op = "add_file"
    /\ last_op.path \in DOMAIN graph.file_index
    /\ \E i \in 1..Len(graph.nodes) :
        /\ graph.nodes[i].kind # "File"
        /\ graph.nodes[i].file_path = last_op.path
        /\ graph.nodes[i].removed
        /\ graph.nodes[i].code_snippet # << >>
        /\ i < graph.file_index[last_op.path]



----------------------------------------------------------------------------
(* Properties of a rebuild_file call that fails *)

\* path has no live node and no entry in file_index or qualified_index of g
SoftDeleted(g, path) ==
    /\ path \notin DOMAIN g.file_index
    /\ \A i \in 1..Len(g.nodes) : g.nodes[i].file_path = path => g.nodes[i].removed
    /\ \A key \in DOMAIN g.qualified_index : key[1] # path
    /\ \A name \in DOMAIN g.symbol_index :
           \A idx \in Range(g.symbol_index[name]) : g.nodes[idx].file_path # path

\* what g holds of the files other than path: their nodes under their
\* handles and their entries of the three indexes
OtherFiles(g, path) ==
    [nodes |-> [i \in {j \in 1..Len(g.nodes) : g.nodes[j].file_path # path} |-> g.nodes[i]],
     file_index |-> [p \in DOMAIN g.file_index \ {path} |-> g.file_index[p]],
     qualified_index |-> [key \in {k \in DOMAIN g.qualified_index : k[1] # path} |->
                             g.qualified_index[key]],
     symbol_index |-> [name \in DOMAIN g.symbol_index |->
                          SelectSeq(g.symbol_index[name],
                                    LAMBDA idx : g.nodes[idx].file_path # path)]]

\* the names whose symbol_index entry has a handle of a file other than path
NamesOfOthers(g, path) ==
    {name \in DOMAIN g.symbol_index :
        \E idx \in Range(g.symbol_index[name]) : g.nodes[idx].file_path # path}

\* C39: rebuild_file is not atomic on failure.  Its first statement,
\* remove_file(p), leaves p soft-deleted and what the graph holds of every
\* other file as it was; when read_to_string or extract_file then fails the
\* call returns the error with the graph as remove_file left it: p has no
\* live File node, no live symbol and no index entry.
C39_FailedRebuildLeavesFileRemoved ==
    [][/\ (wpc = "locked" /\ wpc' = "io") =>
            /\ SoftDeleted(graph', wjob.path)
            /\ Len(graph'.nodes) = Len(graph.nodes)
            /\ graph'.edges = graph.edges
            /\ OtherFiles(graph', wjob.path).nodes = OtherFiles(graph, wjob.path).nodes
            /\ OtherFiles(graph', wjob.path).file_index = OtherFiles(graph, wjob.path).file_index
            /\ OtherFiles(graph', wjob.path).qualified_index
                 = OtherFiles(graph, wjob.path).qualified_index
            /\ NamesOfOthers(graph', wjob.path) = NamesOfOthers(graph, wjob.path)
            /\ \A name \in NamesOfOthers(graph, wjob.path) :
                   OtherFiles(graph', wjob.path).symbol_index[name]
                     = OtherFiles(graph, wjob.path).symbol_index[name]
       /\ (wpc = "io" /\ wpc' = "done") =>
            /\ wjob'.op = "rebuild_file_failed"
            /\ graph' = graph
            /\ SoftDeleted(graph', wjob.path)
       /\ (wpc = "done" /\ wjob.op = "rebuild_file_failed") =>
            /\ graph' = graph
            /\ last_op' = wjob]_vars

\* C39 witness: a rebuild_file of a file that had live symbols has failed:
\* the file is soft-deleted, and another file is live with its symbol
C39_Witness ==
    /\ wpc = "done"
    /\ wjob.op = "rebuild_file_failed"
    /\ SoftDeleted(graph, wjob.path)
    /\ \E i \in 1..Len(graph.nodes) :
           graph.nodes[i].file_path = wjob.path /\ graph.nodes[i].kind # "File"
    /\ \E i \in 1..Len(graph.nodes) :
           /\ graph.nodes[i].file_path # wjob.path
           /\ graph.nodes[i].kind # "File"
           /\ ~graph.nodes[i].removed



----------------------------------------------------------------------------
(* Properties of the calls into a file that is rebuilt alone *)

\* the live Calls edges of g from a symbol of another file to a symbol of path
IncomingCalls(g, path) ==
    {e \in Range(g.edges) :
        /\ e.kind = "Calls"
        /\ is_live(g, e.source) /\ is_live(g, e.target)
        /\ g.nodes[e.source].file_path # path
        /\ g.nodes[e.target].file_path = path}

\* C40: incoming calls are not restored by a single-file rebuild.  When
\* rebuild_file(p) has removed p and ingested an extraction of p alone, every
\* Calls edge that led from a live symbol c of another file to a live symbol
\* s of p is still stored and now points at the removed s; c is live and has
\* no Calls edge to any node the rebuild added, so search reports no callee
\* of c in p, no node the rebuild added has c among its called_by, and
\* dependents of the name of s does not list c.  The calls of the extraction
\* of p itself are resolved anew: from the caller's new node to the first
\* handle symbol_index now has for the callee.
C40_IncomingCallsNotRestored ==
    [][last_op'.op = "rebuild_file" =>
        /\ SubSeq(graph'.edges, 1, Len(graph.edges)) = graph.edges
        /\ \A e \in IncomingCalls(graph, last_op'.path) :
            /\ graph'.nodes[e.target].removed
            /\ is_live(graph', e.source)
            /\ \A later \in Range(graph'.edges) :
                   later.source = e.source => later.target <= Len(graph.nodes)
            /\ \A r \in Range(build_search_result(graph', e.source)) :
                   \A callee \in Range(r.calls) :
                       callee # e.target /\ graph'.nodes[callee].file_path # last_op'.path
            /\ \A added \in (Len(graph.nodes) + 1)..Len(graph'.nodes) :
                   \A r \in Range(build_search_result(graph', added)) :
                       e.source \notin Range(r.called_by)
            /\ \A d \in Range(dependents_handles(graph', graph.nodes[e.target].name)) :
                   d.node # e.source
        /\ \A record \in Range(CallRecords(last_op'.exts)) :
               Resolved(graph', record) =>
                   \E later \in Range(NewEdges) :
                       /\ later.kind = "Calls"
                       /\ later.source = graph'.qualified_index[<<record.file,
                                                                   record.call.caller>>]
                       /\ later.source > Len(graph.nodes)
                       /\ later.target = graph'.symbol_index[record.call.callee][1]]_vars

\* a rebuild has resolved a call made inside the rebuilt file
InnerCallResolved ==
    /\ last_op.op = "rebuild_file"
    /\ \E e \in Range(graph.edges) :
        /\ e.kind = "Calls"
        /\ is_live(graph, e.source) /\ is_live(graph, e.target)
        /\ graph.nodes[e.source].file_path = last_op.path
        /\ \E old \in 1..(e.target - 1) :
               graph.nodes[old].removed /\ graph.nodes[old].name = graph.nodes[e.target].name

\* C40 witness: a file was rebuilt with the symbol it had: the caller in the
\* other file is live, its Calls edge points at the removed node, and the
\* new node of the same symbol is live and has no caller, among its
\* dependents either
C40_Witness ==
    /\ last_op.op = "rebuild_file"
    /\ \E e \in Range(graph.edges), added \in 1..Len(graph.nodes) :
        /\ e.kind = "Calls"
        /\ is_live(graph, e.source)
        /\ graph.nodes[e.source].file_path # last_op.path
        /\ graph.nodes[e.target].removed
        /\ graph.nodes[e.target].file_path = last_op.path
        /\ added > e.target
        /\ is_live(graph, added)
        /\ graph.nodes[added].name = graph.nodes[e.target].name
        /\ graph.nodes[added].file_path = last_op.path
        /\ build_search_result(graph, e.source)[1].calls = << >>
        /\ Payload(graph.nodes[added]) = Payload(graph.nodes[e.target])
        /\ build_search_result(graph, added)[1].called_by = << >>
        /\ \A d \in Range(dependents_handles(graph, graph.nodes[added].name)) :
               d.node # e.source /\ d.relationship # "Calls"

====
